---------------------------- MODULE Spec2Model ----------------------------
(***************************************************************************)
(* Riichi Mahjong scoring calculator: the tile index, the hand organizer  *)
(* (decomposition search and wait classification), the irregular-shape    *)
(* checkers and the yaku checker, modelled from the Rust sources.          *)
(*                                                                         *)
(* The calculator is a pipeline of pure functions.  Each function is an    *)
(* operator computed the way the code computes it; each specification      *)
(* draws inputs from bounded sets in its initial states and applies the    *)
(* functions in its actions.                                               *)
(***************************************************************************)
EXTENDS Integers, Sequences, FiniteSets, TLC

VARIABLES
    pc,            \* position in calculate_agari: "input", "organized", "checked", "error"
    input,         \* the UserInput given to organize_hand
    organization,  \* Result<HandOrganization, &str> of organize_hand
    yaku_result,   \* Result<YakuResult, &str> of check_all_yaku
    call           \* a single call of a helper function: its name, argument and result

vars == <<pc, input, organization, yaku_result, call>>

\* value of a variable a specification does not use
None == [tag |-> "None"]

-----------------------------------------------------------------------------
(* types.rs: tiles *)

SuhaiSuits == <<"Manzu", "Pinzu", "Souzu">>
KazeOrder == <<"Ton", "Nan", "Shaa", "Pei">>
SangenOrder == <<"Haku", "Hatsu", "Chun">>

\* Hai::Suhai(n, s)
Suhai(n, s) == [tag |-> "Suhai", n |-> n, v |-> s]
\* Hai::Jihai(Jihai::Kaze(k))
KazeHai(k) == [tag |-> "Kaze", n |-> 0, v |-> k]
\* Hai::Jihai(Jihai::Sangen(d))
SangenHai(d) == [tag |-> "Sangen", n |-> 0, v |-> d]

\* the 34 tile values
AllHai ==
    {Suhai(n, SuhaiSuits[s]) : n \in 1..9, s \in 1..3}
        \cup {KazeHai(KazeOrder[k]) : k \in 1..4}
        \cup {SangenHai(SangenOrder[d]) : d \in 1..3}

\* the value of an expression that panics
Panic == [tag |-> "Panic", n |-> 0, v |-> "panic"]

-----------------------------------------------------------------------------
(* raw_hand_organizer.rs: helpers (tile_to_index, index_to_tile), which    *)
(* the organizer imports as the centralized tile helpers                   *)

tile_to_index_OffBy9(tile) ==
    IF tile.tag = "Suhai" THEN
        CASE tile.v = "Manzu" -> tile.n - 1
          [] tile.v = "Pinzu" -> (tile.n - 1) + 9
          [] tile.v = "Souzu" -> (tile.n - 1) + 9
    ELSE IF tile.tag = "Kaze" THEN
        CASE tile.v = "Ton" -> 27
          [] tile.v = "Nan" -> 28
          [] tile.v = "Shaa" -> 29
          [] tile.v = "Pei" -> 30
    ELSE
        CASE tile.v = "Haku" -> 31
          [] tile.v = "Hatsu" -> 32
          [] tile.v = "Chun" -> 33

tile_to_index(tile) ==
    IF tile.tag = "Suhai" THEN
        CASE tile.v = "Manzu" -> tile.n - 1
          [] tile.v = "Pinzu" -> (tile.n - 1) + 9
          [] tile.v = "Souzu" -> (tile.n - 1) + 18
    ELSE IF tile.tag = "Kaze" THEN
        CASE tile.v = "Ton" -> 27
          [] tile.v = "Nan" -> 28
          [] tile.v = "Shaa" -> 29
          [] tile.v = "Pei" -> 30
    ELSE
        CASE tile.v = "Haku" -> 31
          [] tile.v = "Hatsu" -> 32
          [] tile.v = "Chun" -> 33

index_to_tile(index) ==
    CASE index \in 0..8 -> Suhai(index + 1, "Manzu")
      [] index \in 9..17 -> Suhai((index - 9) + 1, "Pinzu")
      [] index \in 18..26 -> Suhai((index - 18) + 1, "Souzu")
      [] index = 27 -> KazeHai("Ton")
      [] index = 28 -> KazeHai("Nan")
      [] index = 29 -> KazeHai("Shaa")
      [] index = 30 -> KazeHai("Pei")
      [] index = 31 -> SangenHai("Haku")
      [] index = 32 -> SangenHai("Hatsu")
      [] index = 33 -> SangenHai("Chun")
      [] OTHER -> Panic

-----------------------------------------------------------------------------
(* yaku_checker.rs: tile indexing helpers (the checker's own copy) *)

index_from_hai(hai) ==
    IF hai.tag = "Suhai" THEN
        CASE hai.v = "Manzu" -> hai.n - 1
          [] hai.v = "Pinzu" -> (hai.n - 1) + 9
          [] hai.v = "Souzu" -> (hai.n - 1) + 18
    ELSE IF hai.tag = "Kaze" THEN
        CASE hai.v = "Ton" -> 27
          [] hai.v = "Nan" -> 28
          [] hai.v = "Shaa" -> 29
          [] hai.v = "Pei" -> 30
    ELSE
        CASE hai.v = "Haku" -> 31
          [] hai.v = "Hatsu" -> 32
          [] hai.v = "Chun" -> 33

hai_from_index(idx) ==
    CASE idx \in 0..8 -> Suhai(idx + 1, "Manzu")
      [] idx \in 9..17 -> Suhai((idx - 9) + 1, "Pinzu")
      [] idx \in 18..26 -> Suhai((idx - 18) + 1, "Souzu")
      [] idx = 27 -> KazeHai("Ton")
      [] idx = 28 -> KazeHai("Nan")
      [] idx = 29 -> KazeHai("Shaa")
      [] idx = 30 -> KazeHai("Pei")
      [] idx = 31 -> SangenHai("Haku")
      [] idx = 32 -> SangenHai("Hatsu")
      [] idx = 33 -> SangenHai("Chun")
      [] OTHER -> Panic

-----------------------------------------------------------------------------
(* yaku_checker.rs: dora *)

get_dora_tile_NoWrap(indicator) ==
    IF indicator.tag = "Suhai" THEN
        Suhai(indicator.n + 1, indicator.v)
    ELSE IF indicator.tag = "Kaze" THEN
        KazeHai(CASE indicator.v = "Ton" -> "Nan"
                  [] indicator.v = "Nan" -> "Shaa"
                  [] indicator.v = "Shaa" -> "Pei"
                  [] indicator.v = "Pei" -> "Ton")
    ELSE
        SangenHai(CASE indicator.v = "Haku" -> "Hatsu"
                    [] indicator.v = "Hatsu" -> "Chun"
                    [] indicator.v = "Chun" -> "Haku")

get_dora_tile(indicator) ==
    IF indicator.tag = "Suhai" THEN
        IF indicator.n = 9 THEN Suhai(1, indicator.v)
        ELSE Suhai(indicator.n + 1, indicator.v)
    ELSE IF indicator.tag = "Kaze" THEN
        KazeHai(CASE indicator.v = "Ton" -> "Nan"
                  [] indicator.v = "Nan" -> "Shaa"
                  [] indicator.v = "Shaa" -> "Pei"
                  [] indicator.v = "Pei" -> "Ton")
    ELSE
        SangenHai(CASE indicator.v = "Haku" -> "Hatsu"
                    [] indicator.v = "Hatsu" -> "Chun"
                    [] indicator.v = "Chun" -> "Haku")

-----------------------------------------------------------------------------
(* raw_hand_organizer.rs: input validation                                 *)
(* UserInput = [hand_tiles, winning_tile, open_melds (each a mentsu_type   *)
(*              and a representative_tile), closed_kans (tiles),           *)
(*              player_context, game_context, agari_type]                  *)

\* Err(e)
Err(e) == [status |-> "Err", err |-> e]
\* Ok(())
OkUnit == [status |-> "Ok"]

\* the 34-length count vector of a list of tiles
counts_of(tiles) ==
    [i \in 0..33 |-> Cardinality({k \in 1..Len(tiles) : tile_to_index(tiles[k]) = i})]

\* the Renhou check left out
validate_game_state_NoRenhouCheck(p, g, a, inp) ==
    LET no_calls == inp.open_melds = <<>> /\ inp.closed_kans = <<>>
    IN  IF p.is_daburu_riichi /\ p.is_riichi THEN
            Err("Invalid state: Cannot be both Riichi and Daburu Riichi.")
        ELSE IF p.is_ippatsu /\ ~(p.is_riichi \/ p.is_daburu_riichi) THEN
            Err("Invalid state: Ippatsu requires Riichi or Daburu Riichi.")
        ELSE IF p.is_menzen /\ inp.open_melds # <<>> THEN
            Err("Invalid state: Hand is declared menzen but has open melds.")
        ELSE IF g.is_haitei /\ a = "Ron" THEN
            Err("Invalid state: Haitei (last draw) cannot be a Ron win.")
        ELSE IF g.is_houtei /\ a = "Tsumo" THEN
            Err("Invalid state: Houtei (last discard) cannot be a Tsumo win.")
        ELSE IF g.is_haitei /\ g.is_houtei THEN
            Err("Invalid state: Cannot be both Haitei and Houtei.")
        ELSE IF g.is_rinshan /\ a = "Ron" THEN
            Err("Invalid state: Rinshan (kan draw) cannot be a Ron win.")
        ELSE IF g.is_chankan /\ a = "Tsumo" THEN
            Err("Invalid state: Chankan (robbing kan) cannot be a Tsumo win.")
        ELSE IF g.is_tenhou /\ ~p.is_oya THEN
            Err("Invalid state: Tenhou requires player to be Oya (dealer).")
        ELSE IF g.is_tenhou /\ a # "Tsumo" THEN
            Err("Invalid state: Tenhou must be a Tsumo win.")
        ELSE IF g.is_tenhou /\ ~no_calls THEN
            Err("Invalid state: Tenhou cannot have any calls (no open melds or kans).")
        ELSE IF g.is_chiihou /\ p.is_oya THEN
            Err("Invalid state: Chiihou requires player to be non-Oya.")
        ELSE IF g.is_chiihou /\ a # "Tsumo" THEN
            Err("Invalid state: Chiihou must be a Tsumo win.")
        ELSE IF g.is_chiihou /\ ~no_calls THEN
            Err("Invalid state: Chiihou cannot have any calls (no open melds or kans).")
        ELSE OkUnit

\* logical conflicts
validate_game_state(p, g, a, inp) ==
    LET no_calls == inp.open_melds = <<>> /\ inp.closed_kans = <<>>
    IN  IF p.is_daburu_riichi /\ p.is_riichi THEN
            Err("Invalid state: Cannot be both Riichi and Daburu Riichi.")
        ELSE IF p.is_ippatsu /\ ~(p.is_riichi \/ p.is_daburu_riichi) THEN
            Err("Invalid state: Ippatsu requires Riichi or Daburu Riichi.")
        ELSE IF p.is_menzen /\ inp.open_melds # <<>> THEN
            Err("Invalid state: Hand is declared menzen but has open melds.")
        ELSE IF g.is_haitei /\ a = "Ron" THEN
            Err("Invalid state: Haitei (last draw) cannot be a Ron win.")
        ELSE IF g.is_houtei /\ a = "Tsumo" THEN
            Err("Invalid state: Houtei (last discard) cannot be a Tsumo win.")
        ELSE IF g.is_haitei /\ g.is_houtei THEN
            Err("Invalid state: Cannot be both Haitei and Houtei.")
        ELSE IF g.is_rinshan /\ a = "Ron" THEN
            Err("Invalid state: Rinshan (kan draw) cannot be a Ron win.")
        ELSE IF g.is_chankan /\ a = "Tsumo" THEN
            Err("Invalid state: Chankan (robbing kan) cannot be a Tsumo win.")
        ELSE IF g.is_tenhou /\ ~p.is_oya THEN
            Err("Invalid state: Tenhou requires player to be Oya (dealer).")
        ELSE IF g.is_tenhou /\ a # "Tsumo" THEN
            Err("Invalid state: Tenhou must be a Tsumo win.")
        ELSE IF g.is_tenhou /\ ~no_calls THEN
            Err("Invalid state: Tenhou cannot have any calls (no open melds or kans).")
        ELSE IF g.is_chiihou /\ p.is_oya THEN
            Err("Invalid state: Chiihou requires player to be non-Oya.")
        ELSE IF g.is_chiihou /\ a # "Tsumo" THEN
            Err("Invalid state: Chiihou must be a Tsumo win.")
        ELSE IF g.is_chiihou /\ ~no_calls THEN
            Err("Invalid state: Chiihou cannot have any calls (no open melds or kans).")
        ELSE IF g.is_renhou /\ a # "Ron" THEN
            Err("Invalid state: Renhou must be a Ron win.")
        ELSE OkUnit

\* invalid hand composition
validate_hand_composition(inp, master_counts) ==
    LET total_kans == Len(inp.closed_kans)
            + Len(SelectSeq(inp.open_melds, LAMBDA m : m.mentsu_type = "Kantsu"))
        expected_tiles == (total_kans * 4) + ((4 - total_kans) * 3) + 2
        hand_len == Len(inp.hand_tiles)
        total_fives == master_counts[tile_to_index(Suhai(5, "Manzu"))]
                        + master_counts[tile_to_index(Suhai(5, "Pinzu"))]
                        + master_counts[tile_to_index(Suhai(5, "Souzu"))]
    IN  IF Len(inp.closed_kans) + Len(inp.open_melds) > 4 THEN
            Err("Invalid hand: More than 4 total melds (kans + open melds) declared.")
        ELSE IF ~(hand_len = 14 /\ total_kans = 0) /\ hand_len # expected_tiles THEN
            Err("Invalid hand: Tile count does not match declared kans.")
        ELSE IF ~(\E k \in 1..hand_len : inp.hand_tiles[k] = inp.winning_tile) THEN
            Err("Invalid input: Winning tile is not present in the list of hand tiles.")
        ELSE IF \E i \in 0..33 : master_counts[i] > 4 THEN
            Err("Invalid hand: Contains 5 or more of a single tile type.")
        ELSE IF inp.game_context.num_akadora > total_fives THEN
            Err("Invalid input: Number of akadora exceeds the total number of '5' tiles in the hand.")
        ELSE IF inp.game_context.num_akadora > 4 THEN
            Err("Invalid input: Number of akadora cannot be greater than 4.")
        ELSE OkUnit

validate_input(inp, master_counts) ==
    LET gs == validate_game_state(inp.player_context, inp.game_context,
                                  inp.agari_type, inp)
    IN  IF gs.status = "Err" THEN gs
        ELSE validate_hand_composition(inp, master_counts)

-----------------------------------------------------------------------------
(* raw_hand_organizer.rs: recursive parsing *)

\* Mentsu { mentsu_type, is_minchou, tiles }
Mentsu(ty, open, t1, t2, t3, t4) ==
    [mentsu_type |-> ty, is_minchou |-> open, tiles |-> <<t1, t2, t3, t4>>]

\* mentsu.pop()
Pop(seq) == SubSeq(seq, 1, Len(seq) - 1)

\* while i < 34 && counts[i] == 0 { i += 1; }
RECURSIVE first_held(_, _)
first_held(counts, i) ==
    IF i < 34 /\ counts[i] = 0 THEN first_held(counts, i + 1) ELSE i

\* the search without mentsu.pop() and without the restoring of counts
\* after a failed branch
RECURSIVE find_mentsu_recursive_NoRestore(_, _)
find_mentsu_recursive_NoRestore(counts, mentsu) ==
    IF first_held(counts, 0) = 34 THEN
        [found |-> TRUE, counts |-> counts, mentsu |-> mentsu]
    ELSE
        LET i == first_held(counts, 0)
            koutsu ==
                IF counts[i] >= 3 THEN
                    LET tile == index_to_tile(i)
                    IN  find_mentsu_recursive_NoRestore(
                            [counts EXCEPT ![i] = @ - 3],
                            Append(mentsu, Mentsu("Koutsu", FALSE, tile, tile, tile, tile)))
                ELSE [found |-> FALSE, counts |-> counts, mentsu |-> mentsu]
        IN  IF koutsu.found THEN koutsu
            ELSE
                LET c == koutsu.counts
                    m == koutsu.mentsu
                IN  IF i < 27 /\ (i % 9) < 7 /\ c[i] > 0 /\ c[i + 1] > 0 /\ c[i + 2] > 0 THEN
                        find_mentsu_recursive_NoRestore(
                            [c EXCEPT ![i] = @ - 1, ![i + 1] = @ - 1, ![i + 2] = @ - 1],
                            Append(m, Mentsu("Shuntsu", FALSE, index_to_tile(i),
                                             index_to_tile(i + 1), index_to_tile(i + 2),
                                             index_to_tile(i + 2))))
                    ELSE [found |-> FALSE, counts |-> c, mentsu |-> m]

\* Find melds.  The result is the returned flag together with the count
\* vector and the meld list as the call leaves them.
RECURSIVE find_mentsu_recursive(_, _)
find_mentsu_recursive(counts, mentsu) ==
    IF first_held(counts, 0) = 34 THEN
        [found |-> TRUE, counts |-> counts, mentsu |-> mentsu]
    ELSE
        LET i == first_held(counts, 0)
            \* Find Koutsu
            koutsu ==
                IF counts[i] >= 3 THEN
                    LET tile == index_to_tile(i)
                        r == find_mentsu_recursive(
                                [counts EXCEPT ![i] = @ - 3],
                                Append(mentsu, Mentsu("Koutsu", FALSE, tile, tile, tile, tile)))
                    IN  IF r.found THEN r
                        ELSE [found |-> FALSE,
                              counts |-> [r.counts EXCEPT ![i] = @ + 3],
                              mentsu |-> Pop(r.mentsu)]
                ELSE [found |-> FALSE, counts |-> counts, mentsu |-> mentsu]
        IN  IF koutsu.found THEN koutsu
            ELSE
                \* Find Shuntsu
                LET c == koutsu.counts
                    m == koutsu.mentsu
                IN  IF i < 27 /\ (i % 9) < 7 /\ c[i] > 0 /\ c[i + 1] > 0 /\ c[i + 2] > 0 THEN
                        LET tile1 == index_to_tile(i)
                            tile2 == index_to_tile(i + 1)
                            tile3 == index_to_tile(i + 2)
                            r == find_mentsu_recursive(
                                    [c EXCEPT ![i] = @ - 1, ![i + 1] = @ - 1, ![i + 2] = @ - 1],
                                    Append(m, Mentsu("Shuntsu", FALSE, tile1, tile2, tile3, tile3)))
                        IN  IF r.found THEN r
                            ELSE [found |-> FALSE,
                                  counts |-> [r.counts EXCEPT ![i] = @ + 1,
                                                ![i + 1] = @ + 1, ![i + 2] = @ + 1],
                                  mentsu |-> Pop(r.mentsu)]
                    ELSE [found |-> FALSE, counts |-> c, mentsu |-> m]

-----------------------------------------------------------------------------
(* raw_hand_organizer.rs: wait type analysis *)

\* a meld taken to contain a tile only when it is its first tile
mentsu_contains_tile_FirstOnly(mentsu, tile) == mentsu.tiles[1] = tile

mentsu_contains_tile(mentsu, tile) ==
    IF mentsu.mentsu_type \in {"Koutsu", "Kantsu"} THEN mentsu.tiles[1] = tile
    ELSE mentsu.tiles[1] = tile \/ mentsu.tiles[2] = tile \/ mentsu.tiles[3] = tile

\* the wait of a sequence t1 t2 t3 completed by agari_hai
shuntsu_wait_EdgeSwapped(winning_meld, agari_hai) ==
    LET t1 == winning_meld.tiles[1]
        t2 == winning_meld.tiles[2]
        t3 == winning_meld.tiles[3]
    IN  IF agari_hai = t2 THEN "Kanchan"
        ELSE IF agari_hai = t1 THEN
            (IF tile_to_index(t1) % 9 = 0 THEN "Penchan" ELSE "Ryanmen")
        ELSE IF agari_hai = t3 THEN
            (IF tile_to_index(t3) % 9 = 8 THEN "Penchan" ELSE "Ryanmen")
        ELSE "Panic"

\* determine_wait_type, the Shuntsu arm of the match
shuntsu_wait(winning_meld, agari_hai) ==
    LET t1 == winning_meld.tiles[1]
        t2 == winning_meld.tiles[2]
        t3 == winning_meld.tiles[3]
    IN  IF agari_hai = t2 THEN "Kanchan"
        ELSE IF agari_hai = t1 THEN
            (IF tile_to_index(t3) % 9 = 8 THEN "Penchan" ELSE "Ryanmen")
        ELSE IF agari_hai = t3 THEN
            (IF tile_to_index(t1) % 9 = 0 THEN "Penchan" ELSE "Ryanmen")
        \* unreachable!()
        ELSE "Panic"

\* the single-result wait classifier; "Panic" when the winning tile is in
\* neither the pair nor a meld (the expect fails)
determine_wait_type(mentsu, atama, agari_hai) ==
    IF agari_hai = atama[1] THEN "Tanki"
    ELSE
        LET hits == {k \in 1..Len(mentsu) : mentsu_contains_tile(mentsu[k], agari_hai)}
        IN  IF hits = {} THEN "Panic"
            ELSE
                LET winning_meld == mentsu[CHOOSE k \in hits : \A j \in hits : k <= j]
                IN  IF winning_meld.mentsu_type \in {"Koutsu", "Kantsu"} THEN "Shanpon"
                    ELSE shuntsu_wait(winning_meld, agari_hai)

-----------------------------------------------------------------------------
(* raw_hand_organizer.rs: organize_hand *)

\* Ok(HandOrganization::YonmentsuIchiatama(agari_hand))
OkStandard(mentsu, atama, agari_hai, machi) ==
    [status |-> "Ok",
     val |-> [tag |-> "YonmentsuIchiatama",
              hand |-> [mentsu |-> mentsu, atama |-> atama,
                        agari_hai |-> agari_hai, machi |-> machi]]]

\* Ok(HandOrganization::Irregular { counts, agari_hai })
OkIrregular(counts, agari_hai) ==
    [status |-> "Ok",
     val |-> [tag |-> "Irregular", counts |-> counts, agari_hai |-> agari_hai]]

\* a panic (a failed expect)
Panicked(e) == [status |-> "Panic", err |-> e]

\* the closed kans pushed as triplets
RECURSIVE subtract_closed_kans_AsKoutsu(_, _, _)
subtract_closed_kans_AsKoutsu(kans, concealed_counts, final_mentsu) ==
    IF kans = <<>> THEN
        [status |-> "Ok", counts |-> concealed_counts, mentsu |-> final_mentsu]
    ELSE IF concealed_counts[tile_to_index(kans[1])] < 4 THEN
        Err("Invalid input: declared closed kan not present in hand tiles.")
    ELSE subtract_closed_kans_AsKoutsu(Tail(kans),
            [concealed_counts EXCEPT ![tile_to_index(kans[1])] = @ - 4],
            Append(final_mentsu,
                   Mentsu("Koutsu", FALSE, kans[1], kans[1], kans[1], kans[1])))

\* the loop over the declared closed kans: the residual counts and the melds
\* pushed, or the error of the first kan not present
RECURSIVE subtract_closed_kans(_, _, _)
subtract_closed_kans(kans, concealed_counts, final_mentsu) ==
    IF kans = <<>> THEN
        [status |-> "Ok", counts |-> concealed_counts, mentsu |-> final_mentsu]
    ELSE
        LET kan_tile == kans[1]
            index == tile_to_index(kan_tile)
        IN  IF concealed_counts[index] < 4 THEN
                Err("Invalid input: declared closed kan not present in hand tiles.")
            ELSE subtract_closed_kans(Tail(kans),
                    [concealed_counts EXCEPT ![index] = @ - 4],
                    Append(final_mentsu,
                           Mentsu("Kantsu", FALSE, kan_tile, kan_tile, kan_tile, kan_tile)))

\* the loop over the declared open melds
RECURSIVE subtract_open_melds(_, _, _)
subtract_open_melds(melds, concealed_counts, final_mentsu) ==
    IF melds = <<>> THEN
        [status |-> "Ok", counts |-> concealed_counts, mentsu |-> final_mentsu]
    ELSE
        LET rep_tile == melds[1].representative_tile
            index == tile_to_index(rep_tile)
        IN  CASE melds[1].mentsu_type = "Koutsu" ->
                    IF concealed_counts[index] < 3 THEN
                        Err("Invalid input: declared Pon not present in hand tiles.")
                    ELSE subtract_open_melds(Tail(melds),
                            [concealed_counts EXCEPT ![index] = @ - 3],
                            Append(final_mentsu,
                                   Mentsu("Koutsu", TRUE, rep_tile, rep_tile, rep_tile, rep_tile)))
              [] melds[1].mentsu_type = "Kantsu" ->
                    IF concealed_counts[index] < 4 THEN
                        Err("Invalid input: declared open Kan not present in hand tiles.")
                    ELSE subtract_open_melds(Tail(melds),
                            [concealed_counts EXCEPT ![index] = @ - 4],
                            Append(final_mentsu,
                                   Mentsu("Kantsu", TRUE, rep_tile, rep_tile, rep_tile, rep_tile)))
              [] melds[1].mentsu_type = "Shuntsu" ->
                    IF index >= 27 \/ (index % 9) >= 7 THEN
                        Err("Invalid representative tile for Chi (must be 1-7 of a suit).")
                    ELSE IF concealed_counts[index] < 1
                            \/ concealed_counts[index + 1] < 1
                            \/ concealed_counts[index + 2] < 1 THEN
                        Err("Invalid input: declared Chi not present in hand tiles.")
                    ELSE subtract_open_melds(Tail(melds),
                            [concealed_counts EXCEPT ![index] = @ - 1,
                                ![index + 1] = @ - 1, ![index + 2] = @ - 1],
                            Append(final_mentsu,
                                   Mentsu("Shuntsu", TRUE, rep_tile, index_to_tile(index + 1),
                                          index_to_tile(index + 2), index_to_tile(index + 2))))

standard_hand_from_FirstPairOnly(i, concealed_counts, final_mentsu, mentsu_needed, agari_hai, master_counts) ==
    LET held == {k \in i..33 : concealed_counts[k] >= 2}
    IN  IF held = {} THEN OkIrregular(master_counts, agari_hai)
        ELSE
            LET p == CHOOSE k \in held : \A j \in held : k <= j
                atama == <<index_to_tile(p), index_to_tile(p)>>
                r == find_mentsu_recursive([concealed_counts EXCEPT ![p] = @ - 2], <<>>)
            IN  IF r.found /\ Len(r.mentsu) = mentsu_needed THEN
                    OkStandard(final_mentsu \o r.mentsu, atama, agari_hai,
                               determine_wait_type(final_mentsu \o r.mentsu, atama, agari_hai))
                ELSE OkIrregular(master_counts, agari_hai)

\* the loop "Standard Hand" from candidate pair i on: the first candidate
\* whose residual search succeeds with the needed number of melds is
\* returned; Irregular when no candidate is left
RECURSIVE standard_hand_from(_, _, _, _, _, _)
standard_hand_from(i, concealed_counts, final_mentsu, mentsu_needed, agari_hai, master_counts) ==
    IF i = 34 THEN OkIrregular(master_counts, agari_hai)
    ELSE IF concealed_counts[i] >= 2 THEN
        LET atama == <<index_to_tile(i), index_to_tile(i)>>
            r == find_mentsu_recursive([concealed_counts EXCEPT ![i] = @ - 2], <<>>)
        IN  IF r.found /\ Len(r.mentsu) = mentsu_needed THEN
                LET mentsu_array == final_mentsu \o r.mentsu
                    machi == determine_wait_type(mentsu_array, atama, agari_hai)
                IN  IF Len(mentsu_array) # 4 THEN
                        Panicked("Hand parsing logic error: final_mentsu length not 4")
                    ELSE IF machi = "Panic" THEN
                        Panicked("Winning tile not in pair or melds. Invalid hand.")
                    ELSE OkStandard(mentsu_array, atama, agari_hai, machi)
            ELSE standard_hand_from(i + 1, concealed_counts, final_mentsu,
                                    mentsu_needed, agari_hai, master_counts)
    ELSE standard_hand_from(i + 1, concealed_counts, final_mentsu,
                            mentsu_needed, agari_hai, master_counts)

organize_hand(inp) ==
    LET master_counts == counts_of(inp.hand_tiles)
        valid == validate_input(inp, master_counts)
        kans == subtract_closed_kans(inp.closed_kans, master_counts, <<>>)
        melds == subtract_open_melds(inp.open_melds, kans.counts, kans.mentsu)
        concealed_counts == melds.counts
        final_mentsu == melds.mentsu
        mentsu_needed == 4 - Len(final_mentsu)
        agari_hai == inp.winning_tile
        pairs == {i \in 0..33 : concealed_counts[i] = 2}
    IN  IF valid.status = "Err" THEN valid
        ELSE IF kans.status = "Err" THEN kans
        ELSE IF melds.status = "Err" THEN melds
        \* 4 known melds
        ELSE IF mentsu_needed = 0 /\ pairs # {} THEN
            LET pair_tile == index_to_tile(CHOOSE i \in pairs : \A j \in pairs : i <= j)
            IN  OkStandard(final_mentsu, <<pair_tile, pair_tile>>, agari_hai, "Tanki")
        ELSE IF mentsu_needed = 0 /\ Len(inp.hand_tiles) # 14 THEN
            Err("Invalid hand: 4 open melds but no pair found.")
        \* Standard Hand, then Irregular Hand
        ELSE standard_hand_from(0, concealed_counts, final_mentsu, mentsu_needed,
                                agari_hai, master_counts)

-----------------------------------------------------------------------------
(* yaku_checker.rs: generic tile helpers *)

\* Is the tile a simple (2-8 suhai)?
is_simple(tile) == tile.tag = "Suhai" /\ tile.n >= 2 /\ tile.n <= 8

\* Is the tile a terminal (1 or 9)?
is_terminal(tile) == tile.tag = "Suhai" /\ (tile.n = 1 \/ tile.n = 9)

\* Is the tile an honor tile (wind or dragon)?
is_jihai(tile) == tile.tag \in {"Kaze", "Sangen"}

\* Is the tile a terminal or honor (yaochuu-hai)?
is_yaochuu(tile) == is_terminal(tile) \/ is_jihai(tile)

\* Is the tile part of Ryuuiisou (All Green)?
is_green_tile(tile) ==
    \/ tile.tag = "Suhai" /\ tile.v = "Souzu" /\ tile.n \in {2, 3, 4, 6, 8}
    \/ tile = SangenHai("Hatsu")

\* bitwise complement of a u8 (Rust's ! on an integer)
NotU8(x) == 255 - x

\* Option<T>
NoneOpt == [some |-> FALSE]
Some(x) == [some |-> TRUE, val |-> x]

-----------------------------------------------------------------------------
(* yaku_checker.rs: the irregular shapes *)

\* the tiles pushed by the loop of check_kokushi from index idx on: every
\* terminal/honor tile held once or twice, once each, in index order
RECURSIVE kokushi_tiles(_, _)
kokushi_tiles(counts, idx) ==
    IF idx = 34 THEN <<>>
    ELSE (IF is_yaochuu(hai_from_index(idx)) /\ counts[idx] \in {1, 2}
          THEN <<hai_from_index(idx)>> ELSE <<>>)
         \o kokushi_tiles(counts, idx + 1)

\* Checks for Kokushi Musou (Thirteen Orphans).  Every early return of the
\* loop returns None, so the loop's outcome is the conjunction of its tests.
check_kokushi(counts, agari_hai) ==
    LET yao == {idx \in 0..33 : is_yaochuu(hai_from_index(idx))}
        pairs == {idx \in yao : counts[idx] = 2}
        tiles == kokushi_tiles(counts, 0)
    IN  \* a non-yaochuu tile is held
        IF \E idx \in (0..33) \ yao : counts[idx] > 0 THEN NoneOpt
        \* more than two of a yaochuu tile
        ELSE IF \E idx \in yao : counts[idx] > 2 THEN NoneOpt
        \* more than one pair
        ELSE IF Cardinality(pairs) > 1 THEN NoneOpt
        \* if !has_pair { return None; }
        ELSE IF pairs = {} THEN NoneOpt
        \* if !counts[index_from_hai(agari_hai)] > 0 { return None; }
        \* the ! applies to the u8 count, not to the comparison
        ELSE IF NotU8(counts[index_from_hai(agari_hai)]) > 0 THEN NoneOpt
        ELSE
            LET atama_tile == hai_from_index(CHOOSE idx \in pairs : TRUE)
                atama == <<atama_tile, atama_tile>>
            IN  IF counts[index_from_hai(agari_hai)] = 1 THEN
                    LET all_others_are_one ==
                            \A idx \in yao :
                                hai_from_index(idx) # agari_hai => counts[idx] = 1
                        jusanmen == atama[1] = agari_hai /\ all_others_are_one
                    IN  \* tiles.try_into().ok()?
                        IF Len(tiles) # 13 THEN NoneOpt
                        ELSE Some([structure |->
                                     [tag |-> "KokushiMusou", tiles |-> tiles,
                                      atama |-> atama, agari_hai |-> agari_hai,
                                      machi |-> IF jusanmen THEN "KokushiJusanmen"
                                                ELSE "KokushiIchimen"],
                                   yaku |-> IF jusanmen THEN "KokushiMusouJusanmen"
                                            ELSE "KokushiMusou"])
                ELSE NoneOpt

\* the pairs pushed by the loop of check_chiitoitsu from index idx on
RECURSIVE chiitoitsu_pairs(_, _)
chiitoitsu_pairs(counts, idx) ==
    IF idx = 34 THEN <<>>
    ELSE LET tile == hai_from_index(idx)
         IN  (IF counts[idx] = 2 THEN << <<tile, tile>> >>
              ELSE IF counts[idx] = 4 THEN << <<tile, tile>>, <<tile, tile>> >>
              ELSE <<>>)
             \o chiitoitsu_pairs(counts, idx + 1)

check_chiitoitsu_QuadAsOnePair(counts, agari_hai) ==
    LET pair_count == Cardinality({idx \in 0..33 : counts[idx] = 2})
                        + Cardinality({idx \in 0..33 : counts[idx] = 4})
        pairs == chiitoitsu_pairs(counts, 0)
    IN  IF \E idx \in 0..33 : counts[idx] > 0 /\ counts[idx] \notin {2, 4}
        THEN NoneOpt
        ELSE IF pair_count = 7 /\ Len(pairs) = 7 THEN
            Some([tag |-> "Chiitoitsu", pairs |-> pairs,
                  agari_hai |-> agari_hai, machi |-> "Tanki"])
        ELSE NoneOpt

check_chiitoitsu_AcceptsTriple(counts, agari_hai) ==
    LET pair_count == Cardinality({idx \in 0..33 : counts[idx] \in {2, 3}})
                        + 2 * Cardinality({idx \in 0..33 : counts[idx] = 4})
        pairs == chiitoitsu_pairs(counts, 0)
    IN  IF \E idx \in 0..33 : counts[idx] = 1
        THEN NoneOpt
        ELSE IF pair_count = 7 THEN
            Some([tag |-> "Chiitoitsu", pairs |-> pairs,
                  agari_hai |-> agari_hai, machi |-> "Tanki"])
        ELSE NoneOpt

\* Checks for Chiitoitsu (Seven Pairs)
check_chiitoitsu(counts, agari_hai) ==
    LET pair_count == Cardinality({idx \in 0..33 : counts[idx] = 2})
                        + 2 * Cardinality({idx \in 0..33 : counts[idx] = 4})
        pairs == chiitoitsu_pairs(counts, 0)
    IN  \* return None: has a 1 or 3 (or any other count)
        IF \E idx \in 0..33 : counts[idx] > 0 /\ counts[idx] \notin {2, 4}
        THEN NoneOpt
        \* pairs.try_into().ok()? succeeds when seven pairs were pushed
        ELSE IF pair_count = 7 /\ Len(pairs) = 7 THEN
            Some([tag |-> "Chiitoitsu", pairs |-> pairs,
                  agari_hai |-> agari_hai, machi |-> "Tanki"])
        ELSE NoneOpt

\* a seven-pairs hand never taken as Tsuuiisou
check_chiitoitsu_yakuman_Never(hand) == <<>>

\* Checks if a Chiitoitsu is also a Yakuman (Tsuuiisou)
check_chiitoitsu_yakuman(hand) ==
    IF hand.tag = "Chiitoitsu"
        /\ \A k \in 1..Len(hand.pairs) : is_jihai(hand.pairs[k][1])
    THEN <<"Tsuuiisou">>
    ELSE <<>>

-----------------------------------------------------------------------------
(* yaku_checker.rs: helpers on a standard hand (AgariHand)                 *)
(* Mentsu    = [mentsu_type, is_minchou, tiles (4 tiles, the 4th unused    *)
(*              for Shuntsu/Koutsu)]                                       *)
(* AgariHand = [mentsu (4 melds), atama (the pair), agari_hai, machi]      *)

\* the first n elements of a sequence
Take(seq, n) == SubSeq(seq, 1, n)

\* the tiles a meld contributes: 3 for Shuntsu/Koutsu, 4 for Kantsu
mentsu_tiles(m) == IF m.mentsu_type = "Kantsu" THEN Take(m.tiles, 4) ELSE Take(m.tiles, 3)

\* Gets all 14 tiles from a standard hand.
get_all_tiles(hand) ==
    <<hand.atama[1], hand.atama[2]>>
        \o mentsu_tiles(hand.mentsu[1]) \o mentsu_tiles(hand.mentsu[2])
        \o mentsu_tiles(hand.mentsu[3]) \o mentsu_tiles(hand.mentsu[4])

\* Gets all 5 "groups" (4 melds + 1 pair) from a hand.
get_all_groups(hand) ==
    << <<hand.atama[1], hand.atama[2]>>,
       mentsu_tiles(hand.mentsu[1]), mentsu_tiles(hand.mentsu[2]),
       mentsu_tiles(hand.mentsu[3]), mentsu_tiles(hand.mentsu[4]) >>

\* Is the meld a Koutsu or Kantsu?
is_koutsu_or_kantsu(mentsu) == mentsu.mentsu_type \in {"Koutsu", "Kantsu"}

\* Counts koutsu and kantsu.
count_koutsu_kantsu(hand) ==
    [koutsu |-> Cardinality({k \in 1..4 : hand.mentsu[k].mentsu_type = "Koutsu"}),
     kantsu |-> Cardinality({k \in 1..4 : hand.mentsu[k].mentsu_type = "Kantsu"})]

\* Counts concealed koutsu/kantsu (for Sanankou/Suuankou).
count_concealed_koutsu(hand, agari_type) ==
    Cardinality({k \in 1..4 :
        LET m == hand.mentsu[k]
        IN  /\ ~m.is_minchou
            /\ \/ /\ m.mentsu_type = "Koutsu"
                  \* a koutsu completed by Ron is not concealed
                  /\ ~(agari_type = "Ron"
                        /\ (m.tiles[1] = hand.agari_hai
                             \/ m.tiles[2] = hand.agari_hai
                             \/ m.tiles[3] = hand.agari_hai))
               \/ m.mentsu_type = "Kantsu"})

\* Checks for Honitsu (Half Flush) and Chinitsu (Full Flush).  The loop
\* breaks with both flags false at the first numbered tile of a second suit.
check_color(all_tiles) ==
    LET suhai == SelectSeq(all_tiles, LAMBDA t : t.tag = "Suhai")
        suit == IF suhai = <<>> THEN NoneOpt ELSE Some(suhai[1].v)
        mixed == \E k \in 1..Len(suhai) : suhai[k].v # suhai[1].v
        has_jihai == \E k \in 1..Len(all_tiles) : is_jihai(all_tiles[k])
    IN  [is_honitsu |-> ~mixed /\ has_jihai,
         is_chinitsu |-> ~mixed /\ ~has_jihai /\ suit.some,
         suit |-> suit]

check_honitsu(all_tiles) ==
    [is_honitsu |-> check_color(all_tiles).is_honitsu, suit |-> check_color(all_tiles).suit]

check_chinitsu(all_tiles) ==
    [is_chinitsu |-> check_color(all_tiles).is_chinitsu, suit |-> check_color(all_tiles).suit]

\* the nine gates reported for a hand with an open group as well
check_chuuren_NoOpenCheck(hand) ==
    LET all_tiles == get_all_tiles(hand)
        chin == check_chinitsu(all_tiles)
    IN  IF ~chin.is_chinitsu THEN NoneOpt
        ELSE
            LET suit == chin.suit.val
                counts == [num \in 1..9 |->
                             Cardinality({k \in 1..Len(all_tiles) :
                                 all_tiles[k].tag = "Suhai" /\ all_tiles[k].v = suit
                                    /\ all_tiles[k].n = num})]
                extras == {num \in 1..9 :
                             IF num \in {1, 9} THEN counts[num] = 4 ELSE counts[num] = 2}
            IN  IF \E num \in {1, 9} : counts[num] < 3 THEN NoneOpt
                ELSE IF \E num \in 2..8 : counts[num] < 1 \/ counts[num] > 2 THEN NoneOpt
                ELSE IF Cardinality(extras) # 1 THEN NoneOpt
                ELSE
                    LET extra_tile_num == CHOOSE num \in extras : TRUE
                    IN  Some(/\ hand.agari_hai.tag = "Suhai"
                             /\ hand.agari_hai.v = suit
                             /\ hand.agari_hai.n = extra_tile_num)

\* Checks for Chuuren Poutou (Nine Gates): None, Some(false) or Some(true)
check_chuuren(hand) ==
    LET all_tiles == get_all_tiles(hand)
        chin == check_chinitsu(all_tiles)
    IN  IF ~chin.is_chinitsu THEN NoneOpt
        ELSE IF \E k \in 1..4 : hand.mentsu[k].is_minchou THEN NoneOpt
        ELSE
            LET suit == chin.suit.val
                counts == [num \in 1..9 |->
                             Cardinality({k \in 1..Len(all_tiles) :
                                 all_tiles[k].tag = "Suhai" /\ all_tiles[k].v = suit
                                    /\ all_tiles[k].n = num})]
                extras == {num \in 1..9 :
                             IF num \in {1, 9} THEN counts[num] = 4 ELSE counts[num] = 2}
            IN  IF \E num \in {1, 9} : counts[num] < 3 THEN NoneOpt
                ELSE IF \E num \in 2..8 : counts[num] < 1 \/ counts[num] > 2 THEN NoneOpt
                \* two extras, or no extra
                ELSE IF Cardinality(extras) # 1 THEN NoneOpt
                ELSE
                    LET extra_tile_num == CHOOSE num \in extras : TRUE
                    IN  Some(/\ hand.agari_hai.tag = "Suhai"
                             /\ hand.agari_hai.v = suit
                             /\ hand.agari_hai.n = extra_tile_num)

\* a one-element list if the condition holds, else the empty list
PushIf(cond, yaku) == IF cond THEN <<yaku>> ELSE <<>>

\* does the list contain the yaku?
Contains(list, yaku) == \E k \in 1..Len(list) : list[k] = yaku

tile_yakuman_TerminalsOrHonors(all_tiles) ==
    LET every(P(_)) == \A k \in 1..Len(all_tiles) : P(all_tiles[k])
    IN  PushIf(every(is_jihai), "Tsuuiisou")
        \o PushIf(every(is_terminal), "Chinroutou")
        \o PushIf(every(is_yaochuu), "Honroutou")
        \o PushIf(every(is_green_tile), "Ryuuiisou")

\* check_standard_yakuman, tile-based yakuman (Tsuuiisou, Chinroutou,
\* Ryuuiisou)
tile_yakuman(all_tiles) ==
    LET every(P(_)) == \A k \in 1..Len(all_tiles) : P(all_tiles[k])
    IN  PushIf(every(is_jihai), "Tsuuiisou")
        \o PushIf(every(is_terminal), "Chinroutou")
        \o PushIf(every(is_green_tile), "Ryuuiisou")

\* check_standard_yakuman, the meld-based yakuman and Chuuren Poutou, given
\* the counts the function computed
meld_yakuman(hand, kantsu, concealed_koutsu, dragon_koutsu, wind_koutsu, chuuren_flag) ==
    PushIf(kantsu = 4, "Suukantsu")
    \o PushIf(concealed_koutsu = 4,
              IF hand.machi = "Tanki" THEN "SuuankouTanki" ELSE "Suuankou")
    \o PushIf(dragon_koutsu = 3, "Daisangen")
    \o (IF wind_koutsu = 4 THEN <<"Daisuushi">>
        ELSE IF wind_koutsu = 3 /\ hand.atama[1].tag = "Kaze" THEN <<"Shousuushi">>
        ELSE <<>>)
    \o (IF chuuren_flag.some
        THEN (IF chuuren_flag.val THEN <<"JunseiChuurenPoutou">>
              ELSE <<"ChuurenPoutou">>)
        ELSE <<>>)

\* the melds of the hand that are triplets or quads of a tile of class tag
koutsu_of_class(hand, tag) ==
    Cardinality({k \in 1..4 :
        is_koutsu_or_kantsu(hand.mentsu[k]) /\ hand.mentsu[k].tiles[1].tag = tag})

\* check_standard_yakuman with the Chuuren Poutou flag already computed
standard_yakuman_with(hand, agari_type, chuuren_flag) ==
    [yakuman |->
        tile_yakuman(get_all_tiles(hand))
        \o meld_yakuman(hand, count_koutsu_kantsu(hand).kantsu,
                        count_concealed_koutsu(hand, agari_type),
                        koutsu_of_class(hand, "Sangen"),
                        koutsu_of_class(hand, "Kaze"), chuuren_flag),
     chuuren_flag |-> chuuren_flag]

\* Checks a 4-meld, 1-pair hand for all Yakuman.
\* Returns (Yakuman List, ChuurenPoutou flag)
check_standard_yakuman(hand, player, game, agari_type) ==
    standard_yakuman_with(hand, agari_type, check_chuuren(hand))

\* Checks for Tenhou, Chiihou and Renhou
check_game_state_yakuman(player, game) ==
    PushIf(game.is_tenhou, "Tenhou")
        \o PushIf(game.is_chiihou, "Chiihou")
        \o PushIf(game.is_renhou, "Renhou")

\* the override of ChuurenPoutou by JunseiChuurenPoutou left out
post_process_yakuman_NoChuurenOverride(yakuman) ==
    LET has_suuankou_tanki == Contains(yakuman, "SuuankouTanki")
        has_kokushi_jusanmen == Contains(yakuman, "KokushiMusouJusanmen")
    IN  SelectSeq(yakuman, LAMBDA y :
            /\ (y # "Suuankou" \/ ~has_suuankou_tanki)
            /\ (y # "KokushiMusou" \/ ~has_kokushi_jusanmen))

\* Handles Double Yakuman overrides
post_process_yakuman(yakuman) ==
    LET has_suuankou_tanki == Contains(yakuman, "SuuankouTanki")
        has_kokushi_jusanmen == Contains(yakuman, "KokushiMusouJusanmen")
        has_junsei_chuuren == Contains(yakuman, "JunseiChuurenPoutou")
    IN  SelectSeq(yakuman, LAMBDA y :
            /\ (y # "Suuankou" \/ ~has_suuankou_tanki)
            /\ (y # "KokushiMusou" \/ ~has_kokushi_jusanmen)
            /\ (y # "ChuurenPoutou" \/ ~has_junsei_chuuren))

-----------------------------------------------------------------------------
(* yaku_checker.rs: regular yaku *)

\* the closure check_tile of check_yakuhai: st is (yaku, found); a yaku type
\* already in found is skipped, otherwise it is pushed and recorded when a
\* Koutsu or Kantsu of the tile exists
check_tile(hand, st, tile, yaku_type) ==
    IF /\ yaku_type \notin st.found
       /\ \E k \in 1..Len(hand.mentsu) :
            is_koutsu_or_kantsu(hand.mentsu[k]) /\ hand.mentsu[k].tiles[1] = tile
    THEN [yaku |-> Append(st.yaku, yaku_type), found |-> st.found \cup {yaku_type}]
    ELSE st

\* De-duplicate Sangenpai: the YakuhaiSangenpai entries move to the end
dedup_sangenpai(yaku) ==
    SelectSeq(yaku, LAMBDA y : y # "YakuhaiSangenpai")
        \o SelectSeq(yaku, LAMBDA y : y = "YakuhaiSangenpai")

\* Checks for Yakuhai (Dragons, Seat Wind, Prevalent Wind): the three
\* dragons, then the round wind, then the seat wind
check_yakuhai(hand, player, game) ==
    dedup_sangenpai(
        check_tile(hand,
            check_tile(hand,
                check_tile(hand,
                    check_tile(hand,
                        check_tile(hand, [yaku |-> <<>>, found |-> {}],
                                   SangenHai("Haku"), "YakuhaiSangenpai"),
                        SangenHai("Hatsu"), "YakuhaiSangenpai"),
                    SangenHai("Chun"), "YakuhaiSangenpai"),
                KazeHai(game.bakaze), "YakuhaiBakaze"),
            KazeHai(player.jikaze), "YakuhaiJikaze").yaku)

\* every wind pair taken as a Yakuhai pair
check_pinfu_AnyWindPair(hand, player, game) ==
    /\ player.is_menzen
    /\ \A k \in 1..4 : hand.mentsu[k].mentsu_type = "Shuntsu"
    /\ hand.atama[1].tag = "Suhai"
    /\ hand.machi = "Ryanmen"

\* Checks for Pinfu (No-points hand).
check_pinfu(hand, player, game) ==
    /\ player.is_menzen
    /\ \A k \in 1..4 : hand.mentsu[k].mentsu_type = "Shuntsu"
    /\ hand.atama[1].tag # "Sangen"
    /\ ~(hand.atama[1].tag = "Kaze"
          /\ (hand.atama[1].v = game.bakaze \/ hand.atama[1].v = player.jikaze))
    /\ hand.machi = "Ryanmen"

\* Checks for Tanyao (All Simples).
check_tanyao(hand) ==
    \A k \in 1..Len(get_all_tiles(hand)) : is_simple(get_all_tiles(hand)[k])

\* Checks for Iipeikou and Ryanpeikou.  Each sequence is paired with the
\* first unpaired sequence of the same first tile, so a class of c identical
\* sequences yields c \div 2 pairs.
check_peikou(shuntsu) ==
    LET firsts == {shuntsu[k].tiles[1] : k \in 1..Len(shuntsu)}
        same(t) == Cardinality({k \in 1..Len(shuntsu) : shuntsu[k].tiles[1] = t})
        identical_pairs ==
            Cardinality({<<t, c>> \in firsts \X (1..2) : same(t) \div 2 >= c})
    IN  IF Len(shuntsu) < 2 THEN [iipeikou |-> FALSE, ryanpeikou |-> FALSE]
        ELSE [iipeikou |-> identical_pairs = 1, ryanpeikou |-> identical_pairs = 2]

\* Checks for Sanshoku Doujun (Mixed Triple Sequence)
check_sanshoku_doujun(shuntsu) ==
    /\ Len(shuntsu) >= 3
    /\ \E n \in 1..9 : \A s \in 1..3 :
            \E k \in 1..Len(shuntsu) : shuntsu[k].tiles[1] = Suhai(n, SuhaiSuits[s])

\* Checks for Ittsu (Pure Straight)
check_ittsu(shuntsu) ==
    /\ Len(shuntsu) >= 3
    /\ \E s \in 1..3 : \A n \in {1, 4, 7} :
            \E k \in 1..Len(shuntsu) : shuntsu[k].tiles[1] = Suhai(n, SuhaiSuits[s])

\* Checks for Sanshoku Doukou (Triple Triplets)
check_sanshoku_doukou(hand) ==
    LET koutsu == SelectSeq(hand.mentsu, is_koutsu_or_kantsu)
    IN  /\ Len(koutsu) >= 3
        /\ \E n \in 1..9 : \A s \in 1..3 :
                \E k \in 1..Len(koutsu) : koutsu[k].tiles[1] = Suhai(n, SuhaiSuits[s])

\* Checks for Shousangen (Little Three Dragons)
check_shousangen(hand) ==
    LET dragon_koutsu == Cardinality({k \in 1..4 :
            is_koutsu_or_kantsu(hand.mentsu[k]) /\ hand.mentsu[k].tiles[1].tag = "Sangen"})
        dragon_atama == hand.atama[1].tag = "Sangen"
    IN  dragon_koutsu = 2 /\ dragon_atama

\* Junchan granted to every Chanta hand, honors or not
check_chanta_junchan_HonorsAllowed(groups) ==
    LET has_terminal(g) == \E k \in 1..Len(g) : is_terminal(g[k])
        has_jihai(g) == \E k \in 1..Len(g) : is_jihai(g[k])
        is_chanta == \A j \in 1..Len(groups) :
                        has_terminal(groups[j]) \/ has_jihai(groups[j])
    IN  [is_chanta |-> is_chanta, is_junchan |-> is_chanta]

\* Checks for Chanta and Junchan.  The loop breaks with both flags false at
\* the first group holding neither a terminal nor an honor.
check_chanta_junchan(groups) ==
    LET has_terminal(g) == \E k \in 1..Len(g) : is_terminal(g[k])
        has_jihai(g) == \E k \in 1..Len(g) : is_jihai(g[k])
        is_chanta == \A j \in 1..Len(groups) :
                        has_terminal(groups[j]) \/ has_jihai(groups[j])
        is_junchan == \A j \in 1..Len(groups) : ~has_jihai(groups[j])
    IN  [is_chanta |-> is_chanta, is_junchan |-> is_junchan /\ is_chanta]

triplet_yaku_NoElse(hand, agari_type) ==
    LET kk == count_koutsu_kantsu(hand)
    IN  PushIf(kk.koutsu + kk.kantsu = 4, "Toitoi")
        \o PushIf(count_concealed_koutsu(hand, agari_type) = 3, "Sanankou")

\* find_standard_yaku, Toitoi and Sanankou: mutually exclusive
triplet_yaku(hand, agari_type) ==
    LET kk == count_koutsu_kantsu(hand)
    IN  IF kk.koutsu + kk.kantsu = 4 THEN <<"Toitoi">>
        ELSE PushIf(count_concealed_koutsu(hand, agari_type) = 3, "Sanankou")

\* find_standard_yaku, terminal/honor yaku (Honroutou, Junchan, Chanta)
terminal_honor_yaku(hand) ==
    LET all_tiles == get_all_tiles(hand)
        is_honroutou ==
            /\ \A k \in 1..Len(all_tiles) : is_yaochuu(all_tiles[k])
            \* Exclude Chinroutou
            /\ ~(\A k \in 1..Len(all_tiles) : is_terminal(all_tiles[k]))
        cj == check_chanta_junchan(get_all_groups(hand))
    IN  IF is_honroutou THEN <<"Honroutou">>
        ELSE IF cj.is_junchan THEN <<"Junchan">>
        ELSE IF cj.is_chanta THEN <<"Chanta">> ELSE <<>>

\* find_standard_yaku, sequence yaku (Iipeikou/Ryanpeikou when concealed,
\* Sanshoku Doujun, Ittsu)
sequence_yaku(shuntsu, player) ==
    (IF player.is_menzen
     THEN (IF check_peikou(shuntsu).ryanpeikou THEN <<"Ryanpeikou">>
           ELSE IF check_peikou(shuntsu).iipeikou THEN <<"Iipeikou">> ELSE <<>>)
     ELSE <<>>)
    \o PushIf(check_sanshoku_doujun(shuntsu), "SanshokuDoujun")
    \o PushIf(check_ittsu(shuntsu), "Ittsu")

\* find_standard_yaku, color yaku (Chinitsu, else Honitsu)
color_yaku(all_tiles) ==
    IF check_chinitsu(all_tiles).is_chinitsu THEN <<"Chinitsu">>
    ELSE PushIf(check_honitsu(all_tiles).is_honitsu, "Honitsu")

\* Pinfu removed next to RinshanKaihou only, kept next to Chankan
remove_pinfu_conflict_RinshanOnly(yaku_list) ==
    IF Contains(yaku_list, "Pinfu") /\ Contains(yaku_list, "RinshanKaihou")
    THEN SelectSeq(yaku_list, LAMBDA y : y # "Pinfu")
    ELSE yaku_list

\* find_standard_yaku, post-processing: Pinfu is removed next to
\* RinshanKaihou or Chankan
remove_pinfu_conflict(yaku_list) ==
    IF Contains(yaku_list, "Pinfu")
        /\ (Contains(yaku_list, "RinshanKaihou") \/ Contains(yaku_list, "Chankan"))
    THEN SelectSeq(yaku_list, LAMBDA y : y # "Pinfu")
    ELSE yaku_list

\* Finds all standard yaku for a 4-meld, 1-pair hand.
find_standard_yaku(hand, player, game, agari_type) ==
    remove_pinfu_conflict(
        \* state-based yaku
        (IF player.is_daburu_riichi THEN <<"DaburuRiichi">>
         ELSE IF player.is_riichi THEN <<"Riichi">> ELSE <<>>)
        \o PushIf(player.is_ippatsu, "Ippatsu")
        \o PushIf(player.is_menzen /\ agari_type = "Tsumo", "MenzenTsumo")
        \o PushIf(game.is_haitei /\ agari_type = "Tsumo", "HaiteiRaoyue")
        \o PushIf(game.is_houtei /\ agari_type = "Ron", "HouteiRaoyui")
        \o PushIf(game.is_rinshan, "RinshanKaihou")
        \o PushIf(game.is_chankan, "Chankan")
        \* yakuhai, pinfu, tanyao
        \o check_yakuhai(hand, player, game)
        \o PushIf(check_pinfu(hand, player, game), "Pinfu")
        \o PushIf(check_tanyao(hand), "Tanyao")
        \* sequence yaku
        \o sequence_yaku(SelectSeq(hand.mentsu, LAMBDA m : m.mentsu_type = "Shuntsu"),
                         player)
        \* triplet yaku
        \o triplet_yaku(hand, agari_type)
        \o PushIf(count_koutsu_kantsu(hand).kantsu = 3, "Sankantsu")
        \o PushIf(check_sanshoku_doukou(hand), "SanshokuDoukou")
        \o PushIf(check_shousangen(hand), "Shousangen")
        \* terminal/honor yaku
        \o terminal_honor_yaku(hand)
        \* color yaku
        \o color_yaku(get_all_tiles(hand)))

\* the tiles of a list of pairs, two per pair
RECURSIVE pairs_tiles(_)
pairs_tiles(pairs) ==
    IF pairs = <<>> THEN <<>>
    ELSE <<pairs[1][1], pairs[1][2]>> \o pairs_tiles(Tail(pairs))

\* Finds all yaku for a Chiitoitsu hand.
find_chiitoitsu_yaku(pairs, agari_hai, machi, player, game, agari_type) ==
    LET all_tiles == pairs_tiles(pairs)
    IN  <<"Chiitoitsu">>
        \o (IF player.is_daburu_riichi THEN <<"DaburuRiichi">>
            ELSE IF player.is_riichi THEN <<"Riichi">> ELSE <<>>)
        \o PushIf(player.is_ippatsu, "Ippatsu")
        \o PushIf(agari_type = "Tsumo", "MenzenTsumo")
        \o PushIf(game.is_haitei /\ agari_type = "Tsumo", "HaiteiRaoyue")
        \o PushIf(game.is_houtei /\ agari_type = "Ron", "HouteiRaoyui")
        \o PushIf(\A k \in 1..Len(all_tiles) : is_simple(all_tiles[k]), "Tanyao")
        \o PushIf(\A k \in 1..Len(all_tiles) : is_yaochuu(all_tiles[k]), "Honroutou")
        \o (IF check_chinitsu(all_tiles).is_chinitsu THEN <<"Chinitsu">>
            ELSE PushIf(check_honitsu(all_tiles).is_honitsu, "Honitsu"))

-----------------------------------------------------------------------------
(* yaku_checker.rs: dora and the main entry point *)

\* n copies of a yaku
RECURSIVE Repeat(_, _)
Repeat(yaku, n) == IF n = 0 THEN <<>> ELSE <<yaku>> \o Repeat(yaku, n - 1)

\* Counts the number of Dora in a hand.
RECURSIVE count_dora(_, _)
count_dora(all_tiles, indicators) ==
    IF indicators = <<>> THEN 0
    ELSE Cardinality({k \in 1..Len(all_tiles) :
                        all_tiles[k] = get_dora_tile(indicators[1])})
            + count_dora(all_tiles, Tail(indicators))

\* Gets all 14 tiles from any hand structure.
get_all_tiles_from_structure(structure) ==
    CASE structure.tag = "YonmentsuIchiatama" -> get_all_tiles(structure.hand)
      [] structure.tag = "Chiitoitsu" -> pairs_tiles(structure.pairs)
      [] structure.tag = "KokushiMusou" -> Append(structure.tiles, structure.atama[1])
      [] structure.tag = "ChuurenPoutou" -> get_all_tiles(structure.hand)

\* resolve_hand_structure, the standard arm: a Chuuren Poutou flag turns
\* the structure into ChuurenPoutou
resolve_standard(hand, sy) ==
    [status |-> "Ok",
     structure |-> IF sy.chuuren_flag.some
                   THEN [tag |-> "ChuurenPoutou", hand |-> hand,
                         is_junsei |-> sy.chuuren_flag.val]
                   ELSE [tag |-> "YonmentsuIchiatama", hand |-> hand],
     yakuman |-> sy.yakuman]

\* resolve_hand_structure, the irregular arm: Kokushi first, then Chiitoitsu
resolve_irregular(kokushi, chiitoitsu) ==
    IF kokushi.some THEN
        [status |-> "Ok", structure |-> kokushi.val.structure,
         yakuman |-> <<kokushi.val.yaku>>]
    ELSE IF chiitoitsu.some THEN
        [status |-> "Ok", structure |-> chiitoitsu.val,
         yakuman |-> check_chiitoitsu_yakuman(chiitoitsu.val)]
    ELSE Err("Invalid irregular hand. Not Kokushi or Chiitoitsu.")

\* Tries to resolve the hand into a structure and find any hand-based Yakuman.
resolve_hand_structure(org, player, game, agari_type) ==
    IF org.tag = "YonmentsuIchiatama" THEN
        resolve_standard(org.hand, check_standard_yakuman(org.hand, player, game, agari_type))
    ELSE
        resolve_irregular(check_kokushi(org.counts, org.agari_hai),
                          check_chiitoitsu(org.counts, org.agari_hai))

\* check_all_yaku, the regular yaku of the resolved structure
regular_yaku_of(hand_structure, player, game, agari_type) ==
    CASE hand_structure.tag = "YonmentsuIchiatama" ->
            find_standard_yaku(hand_structure.hand, player, game, agari_type)
      [] hand_structure.tag = "Chiitoitsu" ->
            find_chiitoitsu_yaku(hand_structure.pairs,
                hand_structure.agari_hai, hand_structure.machi,
                player, game, agari_type)
      [] OTHER -> <<>>

\* the dora counted whether or not the hand has a yaku
with_dora_Ungated(regular_yaku, all_tiles, player, game) ==
    regular_yaku
    \o Repeat("Dora", count_dora(all_tiles, game.dora_indicators))
    \o (IF (player.is_riichi \/ player.is_daburu_riichi)
            /\ game.uradora_indicators # <<>>
        THEN Repeat("UraDora", count_dora(all_tiles, game.uradora_indicators))
        ELSE <<>>)

\* check_all_yaku, the dora appended to the regular yaku when the hand has
\* a yaku (or riichi was declared)
with_dora(regular_yaku, all_tiles, player, game) ==
    IF regular_yaku # <<>> \/ player.is_riichi \/ player.is_daburu_riichi THEN
        regular_yaku
        \o Repeat("Dora", count_dora(all_tiles, game.dora_indicators))
        \o (IF (player.is_riichi \/ player.is_daburu_riichi)
                /\ game.uradora_indicators # <<>>
            THEN Repeat("UraDora", count_dora(all_tiles, game.uradora_indicators))
            ELSE <<>>)
    ELSE regular_yaku

\* the regular yaku and the dora evaluated after a yakuman as well
yaku_result_of_NoShortCircuit(hand_structure, yakuman_list, player, game, agari_type) ==
    [status |-> "Ok", hand_structure |-> hand_structure,
     yaku_list |->
        post_process_yakuman(yakuman_list)
        \o with_dora(regular_yaku_of(hand_structure, player, game, agari_type),
                     get_all_tiles_from_structure(hand_structure), player, game)]

\* check_all_yaku, from the resolved structure on: a non-empty yakuman list
\* is returned alone
yaku_result_of(hand_structure, yakuman_list, player, game, agari_type) ==
    [status |-> "Ok", hand_structure |-> hand_structure,
     yaku_list |->
        IF yakuman_list # <<>> THEN post_process_yakuman(yakuman_list)
        ELSE with_dora(regular_yaku_of(hand_structure, player, game, agari_type),
                       get_all_tiles_from_structure(hand_structure), player, game)]

\* a game-state yakuman returned before the structure error is looked at
check_resolved_GameStateFirst(resolved, player, game, agari_type) ==
    IF check_game_state_yakuman(player, game) # <<>> /\ resolved.status = "Err" THEN
        [status |-> "Ok", hand_structure |-> None,
         yaku_list |-> check_game_state_yakuman(player, game)]
    ELSE IF resolved.status = "Err" THEN resolved
    ELSE yaku_result_of(resolved.structure,
                        check_game_state_yakuman(player, game) \o resolved.yakuman,
                        player, game, agari_type)

\* check_all_yaku, after resolve_hand_structure(...)?
check_resolved(resolved, player, game, agari_type) ==
    IF resolved.status = "Err" THEN resolved
    ELSE yaku_result_of(resolved.structure,
                        check_game_state_yakuman(player, game) \o resolved.yakuman,
                        player, game, agari_type)

\* Checks a hand for all yaku: Result<YakuResult, &str>
check_all_yaku(org, player, game, agari_type) ==
    check_resolved(resolve_hand_structure(org, player, game, agari_type),
                   player, game, agari_type)

-----------------------------------------------------------------------------
(* SpecTile: the tile helpers applied to every tile and every index.       *)
(* call.path is the list of functions applied so far, call.src the value   *)
(* the chain started from, call.ret the latest result and call.ty its type *)

\* longest chain of conversions applied to one value
MaxChain == 2

TileInit ==
    /\ pc = "call"
    /\ input = None
    /\ organization = None
    /\ yaku_result = None
    /\ \/ \E t \in AllHai :
            call = [path |-> <<>>, src |-> t, ret |-> t, ty |-> "hai"]
       \/ \E i \in 0..33 :
            call = [path |-> <<>>, src |-> i, ret |-> i, ty |-> "idx"]

Convertible ==
    /\ Len(call.path) < MaxChain
    /\ IF call.path = <<>> THEN TRUE ELSE call.path[1] # "get_dora_tile"

Call_tile_to_index ==
    /\ call.ty = "hai" /\ Convertible
    /\ call' = [call EXCEPT !.path = Append(@, "tile_to_index"),
                            !.ret = tile_to_index(call.ret), !.ty = "idx"]
    /\ UNCHANGED <<pc, input, organization, yaku_result>>

Call_index_to_tile ==
    /\ call.ty = "idx" /\ Convertible
    /\ call' = [call EXCEPT !.path = Append(@, "index_to_tile"),
                            !.ret = index_to_tile(call.ret), !.ty = "hai"]
    /\ UNCHANGED <<pc, input, organization, yaku_result>>

Call_index_from_hai ==
    /\ call.ty = "hai" /\ Convertible
    /\ call' = [call EXCEPT !.path = Append(@, "index_from_hai"),
                            !.ret = index_from_hai(call.ret), !.ty = "idx"]
    /\ UNCHANGED <<pc, input, organization, yaku_result>>

Call_hai_from_index ==
    /\ call.ty = "idx" /\ Convertible
    /\ call' = [call EXCEPT !.path = Append(@, "hai_from_index"),
                            !.ret = hai_from_index(call.ret), !.ty = "hai"]
    /\ UNCHANGED <<pc, input, organization, yaku_result>>

Call_get_dora_tile ==
    /\ call.ty = "hai" /\ call.path = <<>>
    /\ call' = [call EXCEPT !.path = <<"get_dora_tile">>,
                            !.ret = get_dora_tile(call.ret)]
    /\ UNCHANGED <<pc, input, organization, yaku_result>>

TileNext ==
    \/ Call_tile_to_index
    \/ Call_index_to_tile
    \/ Call_index_from_hai
    \/ Call_hai_from_index
    \/ Call_get_dora_tile

SpecTile == TileInit /\ [][TileNext]_vars

\* the organizer's pair of conversions
OrganizerFns == {"tile_to_index", "index_to_tile"}
\* the yaku checker's pair of conversions
CheckerFns == {"index_from_hai", "hai_from_index"}

\* C1: converting a tile to its index and back gives the tile, converting
\* an index in 0..33 to its tile and back gives the index, and every index
\* computed from a tile lies in 0..33; for the organizer's pair of helpers
\* and for the yaku checker's own pair.
C1_TileIndexBijection ==
    /\ (Len(call.path) >= 1 /\ call.path[1] # "get_dora_tile" /\ call.ty = "idx")
            => call.ret \in 0..33
    /\ (Len(call.path) >= 1 /\ call.path[1] # "get_dora_tile" /\ call.ty = "hai")
            => call.ret \in AllHai
    /\ (Len(call.path) = 2
          /\ ({call.path[1], call.path[2]} = OrganizerFns
                \/ {call.path[1], call.path[2]} = CheckerFns))
            => call.ret = call.src

\* a Souzu tile has gone through the yaku checker's pair and come back
C1_Witness ==
    /\ call.path = <<"index_from_hai", "hai_from_index">>
    /\ call.src = Suhai(9, "Souzu")
    /\ call.ret = Suhai(9, "Souzu")

\* position of a name in a rotation
PosIn(order, name) == CHOOSE k \in 1..Len(order) : order[k] = name

\* C7: the bonus tile of a numbered indicator of rank n < 9 is rank n+1 of the
\* same suit and of rank 9 is rank 1 of the same suit; winds cycle
\* Ton->Nan->Shaa->Pei->Ton and dragons Haku->Hatsu->Chun->Haku; the result
\* is in the same class (suit, wind, dragon) as the indicator.
C7_DoraSuccessor ==
    call.path = <<"get_dora_tile">> =>
        LET i == call.src
            d == call.ret
        IN  /\ d.tag = i.tag
            /\ i.tag = "Suhai" =>
                    /\ d.v = i.v
                    /\ d.n = IF i.n < 9 THEN i.n + 1 ELSE 1
            /\ i.tag = "Kaze" =>
                    d.v = KazeOrder[(PosIn(KazeOrder, i.v) % 4) + 1]
            /\ i.tag = "Sangen" =>
                    d.v = SangenOrder[(PosIn(SangenOrder, i.v) % 3) + 1]

\* the bonus tile of a rank-9 indicator has been computed
C7_Witness ==
    /\ call.path = <<"get_dora_tile">>
    /\ call.src = Suhai(9, "Pinzu")
    /\ call.ret = Suhai(1, "Pinzu")

-----------------------------------------------------------------------------
(* Contexts shared by the specifications below *)

AgariTypes == {"Ron", "Tsumo"}

\* a player who declared nothing, seat wind Nan, concealed hand
DefaultPlayer ==
    [jikaze |-> "Nan", is_oya |-> FALSE, is_riichi |-> FALSE,
     is_daburu_riichi |-> FALSE, is_ippatsu |-> FALSE, is_menzen |-> TRUE]

\* East round, no indicator, no special win flag
DefaultGame ==
    [bakaze |-> "Ton", honba |-> 0,
     dora_indicators |-> <<>>, uradora_indicators |-> <<>>, num_akadora |-> 0,
     is_tenhou |-> FALSE, is_chiihou |-> FALSE, is_renhou |-> FALSE,
     is_haitei |-> FALSE, is_houtei |-> FALSE, is_rinshan |-> FALSE,
     is_chankan |-> FALSE]

\* copies of one tile in a set
MaxCopies == 4

\* the 13 terminal/honor indices
YaochuuIdx == {idx \in 0..33 : is_yaochuu(hai_from_index(idx))}

-----------------------------------------------------------------------------
(* SpecIrregular: check_chiitoitsu, check_kokushi and check_all_yaku       *)
(* applied to count vectors.  call.counts and call.agari_hai are the       *)
(* arguments, call.fn the function applied and call.ret its result.        *)

\* number of tile kinds (the last ones, 34 - ChiitoiKinds .. 33) over which
\* the pair-shaped count vectors range
ChiitoiKinds == 7

ChiitoiWindow == (34 - ChiitoiKinds)..33

\* a non-terminal tile (5m) that may spoil a thirteen-orphans vector
SimpleIdx == index_from_hai(Suhai(5, "Manzu"))

\* every count vector over the window, each kind held 0..MaxCopies times
PairShapedCounts ==
    {[i \in 0..33 |-> IF i \in ChiitoiWindow THEN w[i] ELSE 0] :
        w \in [ChiitoiWindow -> 0..MaxCopies]}

\* the 13 orphans once each with d doubled, and the count of e set to v
OrphanCounts(d, e, v) ==
    [i \in 0..33 |-> IF i = d THEN 2
                     ELSE IF i = e THEN v
                     ELSE IF i \in YaochuuIdx THEN 1 ELSE 0]

\* lowest held kind of a vector (the last kind when nothing is held)
LowestHeld(counts) ==
    IF \A i \in 0..33 : counts[i] = 0 THEN 33
    ELSE CHOOSE i \in 0..33 : counts[i] > 0 /\ \A j \in 0..(i - 1) : counts[j] = 0

IrregularInit ==
    /\ pc = "call"
    /\ input = None
    /\ organization = None
    /\ yaku_result = None
    /\ \/ \E d \in YaochuuIdx, a \in YaochuuIdx,
             e \in YaochuuIdx \cup {SimpleIdx}, v \in 0..3 :
            call = [fn |-> "none", counts |-> OrphanCounts(d, e, v),
                    agari_hai |-> hai_from_index(a), ret |-> None]
       \/ \E counts \in PairShapedCounts :
            call = [fn |-> "none", counts |-> counts,
                    agari_hai |-> hai_from_index(LowestHeld(counts)), ret |-> None]

Call_check_chiitoitsu ==
    /\ pc = "call" /\ call.fn = "none"
    /\ call' = [call EXCEPT !.fn = "check_chiitoitsu",
                            !.ret = check_chiitoitsu(call.counts, call.agari_hai)]
    /\ pc' = "returned"
    /\ UNCHANGED <<input, organization, yaku_result>>

Call_check_kokushi ==
    /\ pc = "call" /\ call.fn = "none"
    /\ call' = [call EXCEPT !.fn = "check_kokushi",
                            !.ret = check_kokushi(call.counts, call.agari_hai)]
    /\ pc' = "returned"
    /\ UNCHANGED <<input, organization, yaku_result>>

\* check_all_yaku on HandOrganization::Irregular { counts, agari_hai }
Call_check_all_yaku ==
    /\ pc = "call" /\ call.fn = "none"
    /\ \E a \in AgariTypes :
        call' = [call EXCEPT !.fn = "check_all_yaku",
                    !.ret = check_all_yaku(OkIrregular(call.counts, call.agari_hai).val,
                                           DefaultPlayer, DefaultGame, a)]
    /\ pc' = "returned"
    /\ UNCHANGED <<input, organization, yaku_result>>

IrregularNext ==
    \/ Call_check_chiitoitsu
    \/ Call_check_kokushi
    \/ Call_check_all_yaku

SpecIrregular == IrregularInit /\ [][IrregularNext]_vars

\* kinds held exactly n times
KindsAt(counts, n) == {i \in 0..33 : counts[i] = n}

\* C3: check_chiitoitsu accepts a count vector if and only if every nonzero
\* count is 2 or 4 and (kinds held twice) + 2 x (kinds held four times) = 7;
\* a kind held once or three times causes rejection; an accepted shape has
\* the pair wait (Tanki).
C3_ChiitoitsuRecognition ==
    call.fn = "check_chiitoitsu" =>
        LET c == call.counts
            shape == /\ \A i \in 0..33 : c[i] \in {0, 2, 4}
                     /\ Cardinality(KindsAt(c, 2)) + 2 * Cardinality(KindsAt(c, 4)) = 7
        IN  /\ call.ret.some <=> shape
            /\ (KindsAt(c, 1) \cup KindsAt(c, 3) # {}) => ~call.ret.some
            /\ call.ret.some =>
                    /\ call.ret.val.tag = "Chiitoitsu"
                    /\ call.ret.val.machi = "Tanki"

\* seven distinct kinds held twice have been accepted with the pair wait
C3_Witness ==
    /\ call.fn = "check_chiitoitsu"
    /\ Cardinality(KindsAt(call.counts, 2)) = 7
    /\ call.ret.some
    /\ call.ret.val.machi = "Tanki"

\* C4 as stated: a count vector with one kind held four times and six kinds
\* held twice is accepted by check_chiitoitsu.
C4_QuadPlusSixPairsAccepted ==
    (/\ call.fn = "check_chiitoitsu"
     /\ Cardinality(KindsAt(call.counts, 4)) = 1
     /\ Cardinality(KindsAt(call.counts, 2)) = 6
     /\ \A i \in 0..33 : call.counts[i] \in {0, 2, 4})
        => call.ret.some

\* C4, amended: a count vector with one kind held four times and FIVE kinds
\* held twice (14 tiles) is accepted by check_chiitoitsu as seven pairs, the
\* quad giving two of them; with six kinds held twice beside the quad (16
\* tiles, eight pairs) the vector is rejected.
C4_QuadPlusFivePairsAccepted ==
    (/\ call.fn = "check_chiitoitsu"
     /\ Cardinality(KindsAt(call.counts, 4)) = 1
     /\ \A i \in 0..33 : call.counts[i] \in {0, 2, 4})
        => LET quad == hai_from_index(CHOOSE i \in 0..33 : call.counts[i] = 4)
               twos == Cardinality(KindsAt(call.counts, 2))
           IN  /\ twos = 5 =>
                    /\ call.ret.some
                    /\ Len(call.ret.val.pairs) = 7
                    /\ Cardinality({k \in 1..7 :
                            call.ret.val.pairs[k] = <<quad, quad>>}) = 2
               /\ twos = 6 => ~call.ret.some

\* a quad with five pairs has been accepted
C4_Witness ==
    /\ call.fn = "check_chiitoitsu"
    /\ Cardinality(KindsAt(call.counts, 4)) = 1
    /\ Cardinality(KindsAt(call.counts, 2)) = 5
    /\ \A i \in 0..33 : call.counts[i] \in {0, 2, 4}
    /\ call.ret.some

\* each of the 13 orphans held once and exactly one of them a second time
ThirteenOrphans(counts) ==
    /\ \A i \in 0..33 : i \notin YaochuuIdx => counts[i] = 0
    /\ \A i \in YaochuuIdx : counts[i] \in {1, 2}
    /\ Cardinality({i \in YaochuuIdx : counts[i] = 2}) = 1

\* C5 as stated: for the 13 orphans once each plus one of them a second
\* time, the doubled tile being the winning tile, check_kokushi returns a
\* KokushiMusou structure with wait KokushiJusanmen and the pattern
\* KokushiMusouJusanmen.
C5_KokushiJusanmen ==
    (/\ call.fn = "check_kokushi"
     /\ ThirteenOrphans(call.counts)
     /\ call.counts[index_from_hai(call.agari_hai)] = 2)
        => /\ call.ret.some
           /\ call.ret.val.structure.tag = "KokushiMusou"
           /\ call.ret.val.structure.machi = "KokushiJusanmen"
           /\ call.ret.val.yaku = "KokushiMusouJusanmen"

\* C6 as stated: for the 13 orphans once each plus one of them a second
\* time, the winning tile being one held once, check_kokushi returns a
\* KokushiMusou structure with wait KokushiIchimen and the pattern
\* KokushiMusou, and check_all_yaku returns that pattern, not an error.
C6_KokushiIchimen ==
    (/\ ThirteenOrphans(call.counts)
     /\ call.counts[index_from_hai(call.agari_hai)] = 1)
        => /\ call.fn = "check_kokushi" =>
                /\ call.ret.some
                /\ call.ret.val.structure.tag = "KokushiMusou"
                /\ call.ret.val.structure.machi = "KokushiIchimen"
                /\ call.ret.val.yaku = "KokushiMusou"
           /\ call.fn = "check_all_yaku" =>
                /\ call.ret.status = "Ok"
                /\ call.ret.yaku_list = <<"KokushiMusou">>

-----------------------------------------------------------------------------
(* SpecOrganize: organize_hand applied to every 14-tile hand over a window *)
(* of tile kinds, every held tile as the winning tile, no declared meld.   *)

\* tiles of a winning hand without a kan
HandSize == 14

\* number of consecutive tile kinds the hands are drawn from; the window
\* ends at 3p (index 11), so it spans the end of Manzu (7m 8m 9m) and the
\* start of Pinzu (1p 2p 3p)
HandKinds == 6

HandWindow == (12 - HandKinds)..11

\* UserInput
UserInput(hand_tiles, winning_tile, open_melds, closed_kans, player, game, agari_type) ==
    [hand_tiles |-> hand_tiles, winning_tile |-> winning_tile,
     open_melds |-> open_melds, closed_kans |-> closed_kans,
     player_context |-> player, game_context |-> game, agari_type |-> agari_type]

\* the tiles of a count vector from kind i on, in index order
RECURSIVE tiles_from(_, _)
tiles_from(counts, i) ==
    IF i > 33 THEN <<>>
    ELSE [k \in 1..counts[i] |-> index_to_tile(i)] \o tiles_from(counts, i + 1)

\* number of tiles of a count vector from kind i on
RECURSIVE total_from(_, _)
total_from(counts, i) ==
    IF i > 33 THEN 0 ELSE counts[i] + total_from(counts, i + 1)

\* every hand of HandSize tiles over the window
WindowHands ==
    {c \in {[i \in 0..33 |-> IF i \in HandWindow THEN w[i] ELSE 0] :
                w \in [HandWindow -> 0..MaxCopies]} :
        total_from(c, 0) = HandSize}

\* a player who declared nothing, and one who declared both riichi and
\* double riichi
OrganizePlayers ==
    {DefaultPlayer,
     [DefaultPlayer EXCEPT !.is_riichi = TRUE, !.is_daburu_riichi = TRUE]}

OrganizeInit ==
    /\ pc = "input"
    /\ organization = None
    /\ yaku_result = None
    /\ call = None
    /\ \E counts \in WindowHands, player \in OrganizePlayers :
        \E w \in {i \in HandWindow : counts[i] > 0} :
            input = UserInput(tiles_from(counts, 0), index_to_tile(w), <<>>, <<>>,
                              player, DefaultGame, "Ron")

\* calculate_agari: let org = organize_hand(input)?
OrganizeHand ==
    /\ pc = "input"
    /\ organization' = organize_hand(input)
    /\ pc' = IF organization'.status = "Ok" THEN "organized" ELSE "error"
    /\ UNCHANGED <<input, yaku_result, call>>

OrganizeNext == OrganizeHand

SpecOrganize == OrganizeInit /\ [][OrganizeNext]_vars

\* the three tiles of every triplet and every sequence of the 34 tiles
AllGroups ==
    {<<t, t, t>> : t \in AllHai}
        \cup {<<t, Suhai(t.n + 1, t.v), Suhai(t.n + 2, t.v)>> :
                t \in {u \in AllHai : u.tag = "Suhai" /\ u.n <= 7}}

\* the sum of two count vectors
Plus(x, y) == [i \in 0..33 |-> x[i] + y[i]]

\* the count vectors of the window hands that split into one pair and four
\* groups
PartitionableCounts ==
    LET groups == {counts_of(g) :
                    g \in {x \in AllGroups :
                            \A k \in 1..3 : tile_to_index(x[k]) \in HandWindow}}
        pairs == {counts_of(<<index_to_tile(i), index_to_tile(i)>>) : i \in HandWindow}
        two == {Plus(x, y) : x \in groups, y \in groups}
        four == {Plus(x, y) : x \in two, y \in two}
    IN  {c \in {Plus(p, f) : p \in pairs, f \in four} :
            \A i \in 0..33 : c[i] <= MaxCopies}

\* the input has no declared meld, HandSize tiles with no kind held more
\* than MaxCopies times, and the winning tile among them
UndeclaredHand ==
    /\ input.open_melds = <<>>
    /\ input.closed_kans = <<>>
    /\ Len(input.hand_tiles) = HandSize
    /\ \A i \in 0..33 : counts_of(input.hand_tiles)[i] <= MaxCopies
    /\ \E k \in 1..Len(input.hand_tiles) : input.hand_tiles[k] = input.winning_tile

\* the tiles of the input split into one pair and four groups
Partitionable == counts_of(input.hand_tiles) \in PartitionableCounts

\* organize_hand returned a Standard decomposition
ReturnedStandard ==
    /\ organization.status = "Ok"
    /\ organization.val.tag = "YonmentsuIchiatama"

\* C2 as stated: for every 14-tile hand with no declared group (each kind at
\* most 4 times, winning tile in the hand) that splits into one pair plus
\* four sequences/triplets, organize_hand returns a Standard decomposition,
\* never Irregular and never an error.
C2_DecomposerComplete ==
    (pc # "input" /\ UndeclaredHand /\ Partitionable)
        => ReturnedStandard

\* C2, amended: the same, for inputs that pass validate_input (no conflict
\* among the declared flags, red fives not exceeding the fives held); an
\* input that fails it gets the validation error whatever its tiles.
C2_DecomposerCompleteWhenValid ==
    (pc # "input" /\ UndeclaredHand /\ Partitionable)
        => LET valid == validate_input(input, counts_of(input.hand_tiles))
           IN  IF valid.status = "Ok" THEN ReturnedStandard
               ELSE organization = valid

\* a hand whose lowest triplet must be broken into the pair and a sequence
\* (1p 1p 1p 2p 3p as 1p1p + 1p2p3p) has been decomposed
C2_Witness ==
    /\ pc = "organized"
    /\ UndeclaredHand
    /\ Partitionable
    /\ counts_of(input.hand_tiles)[tile_to_index(Suhai(1, "Pinzu"))] = 3
    /\ ReturnedStandard
    /\ organization.val.hand.atama[1] = Suhai(1, "Pinzu")

\* the first meld of the decomposition that contains the winning tile
WinningMeld(hand) ==
    hand.mentsu[CHOOSE k \in 1..4 :
        /\ \E j \in 1..3 : hand.mentsu[k].tiles[j] = hand.agari_hai
        /\ \A i \in 1..(k - 1) : \A j \in 1..3 : hand.mentsu[i].tiles[j] # hand.agari_hai]

\* the winning tile is not the pair tile and the (first) meld that contains
\* it is a sequence
WonOnSequence ==
    /\ pc = "organized"
    /\ ReturnedStandard
    /\ organization.val.hand.agari_hai # organization.val.hand.atama[1]
    /\ \E k \in 1..4 : \E j \in 1..3 :
            organization.val.hand.mentsu[k].tiles[j] = organization.val.hand.agari_hai
    /\ WinningMeld(organization.val.hand).mentsu_type = "Shuntsu"

\* C10: when the winning tile is not the pair tile and the meld that
\* contains it is a sequence (t1,t2,t3), the wait is Kanchan if the tile is
\* t2, Penchan if it is t1 and t3 has rank 9 or it is t3 and t1 has rank 1,
\* and Ryanmen otherwise; a win on the low end of a sequence whose high end
\* is not rank 9 is Ryanmen.
C10_SequenceWait ==
    WonOnSequence =>
        LET hand == organization.val.hand
            m == WinningMeld(hand)
            t1 == m.tiles[1]
            t2 == m.tiles[2]
            t3 == m.tiles[3]
            w == hand.agari_hai
        IN  /\ hand.machi \in {"Kanchan", "Penchan", "Ryanmen"}
            /\ hand.machi = "Kanchan" <=> w = t2
            /\ hand.machi = "Penchan" <=> ((w = t1 /\ t3.n = 9) \/ (w = t3 /\ t1.n = 1))
            /\ (w = t1 /\ t3.n # 9) => hand.machi = "Ryanmen"

\* a win on the low end of 1p 2p 3p has been classified as two-sided
C10_Witness ==
    /\ WonOnSequence
    /\ organization.val.hand.agari_hai = Suhai(1, "Pinzu")
    /\ WinningMeld(organization.val.hand).tiles[3] = Suhai(3, "Pinzu")
    /\ organization.val.hand.machi = "Ryanmen"

-----------------------------------------------------------------------------
(* Spec: calculate_agari, organize_hand then check_all_yaku, on hands      *)
(* built from terminal and honor triplets, two sequences and a pair, with  *)
(* and without a declared pon, and on seven-pairs and thirteen-orphans     *)
(* hands.                                                                  *)

\* the melds the standard hands are built from: six triplets ...
TripletTiles ==
    {Suhai(1, "Manzu"), Suhai(9, "Manzu"), Suhai(1, "Pinzu"), Suhai(9, "Pinzu"),
     KazeHai("Ton"), SangenHai("Haku")}

\* ... and two sequences
SequenceStarts == {Suhai(1, "Manzu"), Suhai(7, "Pinzu")}

\* the pairs of the standard hands
PairTiles == {Suhai(1, "Souzu"), KazeHai("Nan")}

\* the kinds the seven-pairs hands are built from
SevenPairsTiles ==
    {Suhai(1, "Manzu"), Suhai(9, "Manzu"), Suhai(1, "Pinzu"), Suhai(9, "Pinzu"),
     Suhai(1, "Souzu"), Suhai(9, "Souzu"), KazeHai("Ton"), SangenHai("Haku")}

MeldCounts ==
    {counts_of(<<t, t, t>>) : t \in TripletTiles}
        \cup {counts_of(<<t, Suhai(t.n + 1, t.v), Suhai(t.n + 2, t.v)>>) :
                t \in SequenceStarts}

\* one pair and four different melds
StandardHands ==
    {c \in {Plus(counts_of(<<p, p>>), Plus(Plus(m[1], m[2]), Plus(m[3], m[4]))) :
                p \in PairTiles,
                m \in {x \in [1..4 -> MeldCounts] : Cardinality({x[k] : k \in 1..4}) = 4}} :
        \A i \in 0..33 : c[i] <= MaxCopies}

\* seven different pairs, or a quad and five pairs, of the seven-pairs kinds
SevenPairsHands ==
    {[i \in 0..33 |-> IF index_to_tile(i) \in kinds THEN 2 ELSE 0] :
        kinds \in {k \in SUBSET SevenPairsTiles : Cardinality(k) = 7}}
    \cup
    UNION {{[i \in 0..33 |-> IF index_to_tile(i) = q THEN 4
                             ELSE IF index_to_tile(i) \in kinds THEN 2 ELSE 0] :
                kinds \in {k \in SUBSET (SevenPairsTiles \ {q}) : Cardinality(k) = 5}} :
            q \in SevenPairsTiles}

\* the thirteen orphans with one of them doubled
ThirteenOrphansHands == {OrphanCounts(d, d, 2) : d \in YaochuuIdx}

\* what the player declared: nothing, a pon (open triplet), or a closed kan
\* (made with a fourth tile) of the lowest kind held three times or more
DeclaredChoices == {"none", "pon", "kan"}

\* lowest kind held three times or more
LowestTriplet(counts) ==
    CHOOSE i \in 0..33 : counts[i] >= 3 /\ \A j \in 0..(i - 1) : counts[j] < 3

\* the input of a standard hand with the declaration and the winning kind w
StandardInput(counts, declared, w, player, agari_type) ==
    UserInput(
        tiles_from(IF declared = "kan"
                   THEN [counts EXCEPT ![LowestTriplet(counts)] = @ + 1]
                   ELSE counts, 0),
        index_to_tile(w),
        IF declared = "pon"
        THEN << [mentsu_type |-> "Koutsu",
                 representative_tile |-> index_to_tile(LowestTriplet(counts))] >>
        ELSE <<>>,
        IF declared = "kan" THEN <<index_to_tile(LowestTriplet(counts))>> ELSE <<>>,
        player, DefaultGame, agari_type)

Init ==
    /\ pc = "input"
    /\ organization = None
    /\ yaku_result = None
    /\ call = None
    /\ \/ \E counts \in StandardHands, agari_type \in AgariTypes, menzen \in BOOLEAN,
             declared \in DeclaredChoices :
            \E w \in {i \in 0..33 : counts[i] > 0} :
                input = StandardInput(counts, declared, w,
                                      [DefaultPlayer EXCEPT !.is_menzen = menzen],
                                      agari_type)
       \/ \E counts \in SevenPairsHands \cup ThirteenOrphansHands,
             agari_type \in AgariTypes :
            \E w \in {i \in 0..33 : counts[i] > 0} :
                input = UserInput(tiles_from(counts, 0), index_to_tile(w), <<>>, <<>>,
                                  DefaultPlayer, DefaultGame, agari_type)

\* calculate_agari: let yaku_result = check_all_yaku(organization, ...)?
CheckAllYaku ==
    /\ pc = "organized"
    /\ yaku_result' = check_all_yaku(organization.val, input.player_context,
                                     input.game_context, input.agari_type)
    /\ pc' = IF yaku_result'.status = "Ok" THEN "checked" ELSE "error"
    /\ UNCHANGED <<input, organization, call>>

Next ==
    \/ OrganizeHand
    \/ CheckAllYaku

Spec == Init /\ [][Next]_vars

\* check_all_yaku returned a pattern list
Checked == pc = "checked" /\ yaku_result.status = "Ok"

\* C8: the pattern list returned by check_all_yaku never contains both
\* Chinroutou (all terminals, a yakuman) and Honroutou (all terminals and
\* honors, an ordinary pattern).
C8_ChinroutouExcludesHonroutou ==
    Checked =>
        ~(Contains(yaku_result.yaku_list, "Chinroutou")
            /\ Contains(yaku_result.yaku_list, "Honroutou"))

\* an all-terminal hand has been given Chinroutou
C8_Witness ==
    /\ Checked
    /\ \A k \in 1..Len(input.hand_tiles) :
            input.hand_tiles[k].tag = "Suhai" /\ input.hand_tiles[k].n \in {1, 9}
    /\ Contains(yaku_result.yaku_list, "Chinroutou")

\* the four melds of the hand are all triplets or quads
AllTriplets(hand) ==
    \A k \in 1..4 : hand.mentsu[k].mentsu_type \in {"Koutsu", "Kantsu"}

\* the melds of the hand that are concealed triplets or quads, a triplet
\* completed by a discard counting as open
ConcealedTriplets(hand, agari_type) ==
    {k \in 1..4 :
        /\ hand.mentsu[k].mentsu_type \in {"Koutsu", "Kantsu"}
        /\ ~hand.mentsu[k].is_minchou
        /\ ~(agari_type = "Ron" /\ hand.mentsu[k].mentsu_type = "Koutsu"
                /\ hand.mentsu[k].tiles[1] = hand.agari_hai)}

\* C9: for a Standard hand the pattern list returned by check_all_yaku
\* never contains both Toitoi and Sanankou; when all four melds are
\* triplets or quads, Sanankou is not granted.
C9_ToitoiExcludesSanankou ==
    (Checked /\ organization.val.tag = "YonmentsuIchiatama") =>
        /\ ~(Contains(yaku_result.yaku_list, "Toitoi")
                /\ Contains(yaku_result.yaku_list, "Sanankou"))
        /\ AllTriplets(organization.val.hand)
                => ~Contains(yaku_result.yaku_list, "Sanankou")

\* an all-triplet hand with exactly three concealed triplets has been given
\* Toitoi
C9_Witness ==
    /\ Checked
    /\ organization.val.tag = "YonmentsuIchiatama"
    /\ AllTriplets(organization.val.hand)
    /\ Cardinality(ConcealedTriplets(organization.val.hand, input.agari_type)) = 3
    /\ Contains(yaku_result.yaku_list, "Toitoi")

-----------------------------------------------------------------------------
(* score_calculator/points.rs *)

\* largest u8
U8Max == 255

\* (points, limit) as returned by calculate_basic_points
BasicPoints(points, limit) == [points |-> points, limit |-> limit]

\* a shift by han + 1 in place of han + 2
raw_basic_points_ShiftByHanPlus1(han, fu) == fu * (2 ^ (han + 1))

\* let basic_points = (fu as u32) * (1 << (han + 2));  han < 5 here, so the
\* u8 sum and the u32 product (at most 255 * 64) do not overflow
raw_basic_points(han, fu) == fu * (2 ^ (han + 2))

\* the han == 5 arm dropped, so that 5 han falls through to the fu formula
calculate_basic_points_NoManganArm(han, fu) ==
    IF han >= 13 THEN BasicPoints(8000, Some("Yakuman"))
    ELSE IF han >= 11 THEN BasicPoints(6000, Some("Sanbaiman"))
    ELSE IF han >= 8 THEN BasicPoints(4000, Some("Baiman"))
    ELSE IF han >= 6 THEN BasicPoints(3000, Some("Haneman"))
    ELSE IF raw_basic_points(han, fu) >= 2000 THEN BasicPoints(2000, Some("Mangan"))
    ELSE BasicPoints(raw_basic_points(han, fu), NoneOpt)

calculate_basic_points(han, fu) ==
    IF han >= 13 THEN BasicPoints(8000, Some("Yakuman"))
    ELSE IF han >= 11 THEN BasicPoints(6000, Some("Sanbaiman"))
    ELSE IF han >= 8 THEN BasicPoints(4000, Some("Baiman"))
    ELSE IF han >= 6 THEN BasicPoints(3000, Some("Haneman"))
    ELSE IF han = 5 THEN BasicPoints(2000, Some("Mangan"))
    ELSE IF raw_basic_points(han, fu) >= 2000 THEN BasicPoints(2000, Some("Mangan"))
    ELSE BasicPoints(raw_basic_points(han, fu), NoneOpt)

-----------------------------------------------------------------------------
(* SpecPoints: calculate_basic_points applied to every (han, fu) of u8.    *)
(* call.han and call.fu are the arguments, call.ret the result.            *)

PointsInit ==
    /\ pc = "call"
    /\ input = None
    /\ organization = None
    /\ yaku_result = None
    /\ \E han \in 0..U8Max, fu \in 0..U8Max :
            call = [fn |-> "none", han |-> han, fu |-> fu, ret |-> None]

Call_calculate_basic_points ==
    /\ pc = "call" /\ call.fn = "none"
    /\ call' = [call EXCEPT !.fn = "calculate_basic_points",
                            !.ret = calculate_basic_points(call.han, call.fu)]
    /\ pc' = "returned"
    /\ UNCHANGED <<input, organization, yaku_result>>

PointsNext == Call_calculate_basic_points

SpecPoints == PointsInit /\ [][PointsNext]_vars

\* calculate_basic_points has returned
PointsReturned == pc = "returned" /\ call.fn = "calculate_basic_points"

\* C13: the han thresholds do not depend on fu: 5 han is (2000, Mangan),
\* 6..7 han (3000, Haneman), 8..10 han (4000, Baiman), 11..12 han
\* (6000, Sanbaiman), 13 han and more (8000, Yakuman); and for a fixed fu the
\* base points never decrease when han grows by one.
C13_HanThresholds ==
    PointsReturned =>
        /\ call.han = 5 => call.ret = BasicPoints(2000, Some("Mangan"))
        /\ call.han \in 6..7 => call.ret = BasicPoints(3000, Some("Haneman"))
        /\ call.han \in 8..10 => call.ret = BasicPoints(4000, Some("Baiman"))
        /\ call.han \in 11..12 => call.ret = BasicPoints(6000, Some("Sanbaiman"))
        /\ call.han >= 13 => call.ret = BasicPoints(8000, Some("Yakuman"))
        /\ call.han < U8Max =>
                call.ret.points <= calculate_basic_points(call.han + 1, call.fu).points

\* 5 han at a fu whose formula value is far below 2000 has returned Mangan
C13_Witness ==
    /\ PointsReturned
    /\ call.han = 5 /\ call.fu = 1
    /\ call.ret = BasicPoints(2000, Some("Mangan"))

\* C14 as stated: below 5 han the result is fu x 2^(han+2) with no tier
\* unless that value exceeds 2000, in which case it is (2000, Mangan); the
\* base points never exceed 2000.
C14_CappedWhenAbove2000 ==
    (PointsReturned /\ call.han < 5) =>
        /\ call.ret = IF call.fu * (2 ^ (call.han + 2)) > 2000
                      THEN BasicPoints(2000, Some("Mangan"))
                      ELSE BasicPoints(call.fu * (2 ^ (call.han + 2)), NoneOpt)
        /\ call.ret.points <= 2000

\* C14: below 5 han the result is fu x 2^(han+2) with no tier unless that
\* value reaches 2000 or more, in which case it is (2000, Mangan); the base
\* points never exceed 2000.
C14_CappedFrom2000 ==
    (PointsReturned /\ call.han < 5) =>
        /\ call.ret = IF call.fu * (2 ^ (call.han + 2)) >= 2000
                      THEN BasicPoints(2000, Some("Mangan"))
                      ELSE BasicPoints(call.fu * (2 ^ (call.han + 2)), NoneOpt)
        /\ call.ret.points <= 2000

\* a formula value of exactly 2000 (2 han, 125 fu) has been returned
C14_Witness ==
    /\ PointsReturned
    /\ call.han = 2 /\ call.fu = 125
    /\ call.ret = BasicPoints(2000, Some("Mangan"))

-----------------------------------------------------------------------------
(* The Yaku enum: yakuman and bonus entries *)

\* Yakuman (13 Han) and Double Yakuman (26 Han)
YakumanYaku ==
    {"Tenhou", "Chiihou", "Renhou", "Daisangen", "Suuankou", "Daisuushi",
     "Shousuushi", "Tsuuiisou", "Chinroutou", "Ryuuiisou", "Suukantsu",
     "KokushiMusou", "ChuurenPoutou",
     "SuuankouTanki", "KokushiMusouJusanmen", "JunseiChuurenPoutou"}

\* Dora (Bonus Han, not Yaku)
BonusYaku == {"Dora", "UraDora", "AkaDora"}

-----------------------------------------------------------------------------
(* SpecYakuman: post_process_yakuman applied to lists of yakuman.          *)
(* call.list is the argument, call.ret the result.                         *)

\* longest yakuman list
MaxYakuman == 3

\* the yakuman the lists are made of: the three doubled variants, their
\* ordinary counterparts, and two yakuman without a doubled variant
ListedYakuman ==
    {"SuuankouTanki", "Suuankou", "KokushiMusouJusanmen", "KokushiMusou",
     "JunseiChuurenPoutou", "ChuurenPoutou", "Tenhou", "Daisangen"}

YakumanInit ==
    /\ pc = "call"
    /\ input = None
    /\ organization = None
    /\ yaku_result = None
    /\ \E n \in 0..MaxYakuman :
        \E list \in [1..n -> ListedYakuman] :
            call = [fn |-> "none", list |-> list, ret |-> None]

Call_post_process_yakuman ==
    /\ pc = "call" /\ call.fn = "none"
    /\ call' = [call EXCEPT !.fn = "post_process_yakuman",
                            !.ret = post_process_yakuman(call.list)]
    /\ pc' = "returned"
    /\ UNCHANGED <<input, organization, yaku_result>>

YakumanNext == Call_post_process_yakuman

SpecYakuman == YakumanInit /\ [][YakumanNext]_vars

\* <<doubled variant, ordinary counterpart>>
Overrides ==
    {<<"SuuankouTanki", "Suuankou">>,
     <<"KokushiMusouJusanmen", "KokushiMusou">>,
     <<"JunseiChuurenPoutou", "ChuurenPoutou">>}

\* y is an ordinary counterpart whose doubled variant is in the list
Overridden(list, y) == \E o \in Overrides : o[2] = y /\ Contains(list, o[1])

\* C16: the list that post_process_yakuman returns (and check_all_yaku
\* emits) never holds a doubled yakuman together with its ordinary
\* counterpart, and it is the given list with exactly the overridden
\* counterparts removed: nothing else is dropped, added or reordered.
C16_OverrideResolution ==
    (pc = "returned" /\ call.fn = "post_process_yakuman") =>
        /\ \A o \in Overrides :
                ~(Contains(call.ret, o[1]) /\ Contains(call.ret, o[2]))
        /\ call.ret = SelectSeq(call.list, LAMBDA y : ~Overridden(call.list, y))

\* a list holding JunseiChuurenPoutou, ChuurenPoutou and another yakuman
\* came back without ChuurenPoutou and with the other two
C16_Witness ==
    /\ pc = "returned" /\ call.fn = "post_process_yakuman"
    /\ call.list = <<"ChuurenPoutou", "Tenhou", "JunseiChuurenPoutou">>
    /\ call.ret = <<"Tenhou", "JunseiChuurenPoutou">>

-----------------------------------------------------------------------------
(* SpecContext: organize_hand followed by check_all_yaku, as in Spec, on a *)
(* few hands under many contexts: every combination of the player's and    *)
(* the game's flags, dora and ura-dora indicators, declared melds.         *)

\* the sequence starting at tile t, a triplet and a pair of t
Run(t) == <<t, Suhai(t.n + 1, t.v), Suhai(t.n + 2, t.v)>>
Three(t) == <<t, t, t>>
Two(t) == <<t, t>>

\* 234m 567m 345p 678s: four sequences of simples
FourRuns ==
    Run(Suhai(2, "Manzu")) \o Run(Suhai(5, "Manzu"))
        \o Run(Suhai(3, "Pinzu")) \o Run(Suhai(6, "Souzu"))

\* 234m 567m 345p
ThreeRuns ==
    Run(Suhai(2, "Manzu")) \o Run(Suhai(5, "Manzu")) \o Run(Suhai(3, "Pinzu"))

\* the four sequences with a dragon, seat wind, round wind, other wind or
\* terminal pair
SequenceHands ==
    {counts_of(FourRuns \o Two(p)) :
        p \in {SangenHai("Haku"), KazeHai("Nan"), KazeHai("Ton"), KazeHai("Shaa"),
               Suhai(9, "Souzu")}}

\* hands with one, two and three dragon triplets, and two with a dragon pair
DragonHands ==
    {counts_of(ThreeRuns \o Three(SangenHai("Haku")) \o Two(Suhai(9, "Souzu"))),
     counts_of(Run(Suhai(2, "Manzu")) \o Run(Suhai(3, "Pinzu"))
                \o Three(SangenHai("Haku")) \o Three(SangenHai("Hatsu"))
                \o Two(Suhai(9, "Souzu"))),
     counts_of(Run(Suhai(2, "Manzu")) \o Run(Suhai(3, "Pinzu"))
                \o Three(SangenHai("Haku")) \o Three(SangenHai("Hatsu"))
                \o Two(SangenHai("Chun"))),
     counts_of(Run(Suhai(2, "Manzu")) \o Three(SangenHai("Haku"))
                \o Three(SangenHai("Hatsu")) \o Three(SangenHai("Chun"))
                \o Two(Suhai(9, "Souzu")))}

\* 222m 444p 666s 888s 9s9s: four triplets
TripletHands ==
    {counts_of(Three(Suhai(2, "Manzu")) \o Three(Suhai(4, "Pinzu"))
                \o Three(Suhai(6, "Souzu")) \o Three(Suhai(8, "Souzu"))
                \o Two(Suhai(9, "Souzu")))}

\* the seven honors twice each, and seven pairs of suited tiles
PairHands ==
    {[i \in 0..33 |-> IF is_jihai(index_to_tile(i)) THEN 2 ELSE 0],
     counts_of(Two(Suhai(2, "Manzu")) \o Two(Suhai(4, "Manzu"))
                \o Two(Suhai(6, "Pinzu")) \o Two(Suhai(8, "Pinzu"))
                \o Two(Suhai(3, "Souzu")) \o Two(Suhai(5, "Souzu"))
                \o Two(Suhai(9, "Souzu")))}

\* four sequences and two single tiles: no pair, not seven pairs
BrokenHands ==
    {counts_of(FourRuns \o <<Suhai(9, "Souzu"), SangenHai("Haku")>>)}

ContextHands ==
    SequenceHands \cup DragonHands \cup TripletHands \cup PairHands \cup BrokenHands

\* the declarations a hand allows: a pon or a closed kan needs a triplet
DeclaredFor(counts) ==
    IF \E i \in 0..33 : counts[i] >= 3 THEN DeclaredChoices ELSE {"none"}

\* the input of a hand under a game context; the declaration "missing" is
\* a pon of Chun, of which the hand holds less than three
ContextInput(counts, declared, w, player, game, agari_type) ==
    IF declared = "missing" THEN
        [StandardInput(counts, "none", w, player, agari_type)
            EXCEPT !.game_context = game,
                   !.open_melds = << [mentsu_type |-> "Koutsu",
                                      representative_tile |-> SangenHai("Chun")] >>]
    ELSE
        [StandardInput(counts, declared, w, player, agari_type)
            EXCEPT !.game_context = game]

\* 1m and Ton as dora indicators (dora 2m and Nan), 8s as ura-dora indicator
\* (ura-dora 9s)
DoraIndicators == <<Suhai(1, "Manzu"), KazeHai("Ton")>>
UraDoraIndicators == <<Suhai(8, "Souzu")>>

\* game contexts with indicators or one flag
ContextGames ==
    {DefaultGame,
     [DefaultGame EXCEPT !.dora_indicators = DoraIndicators],
     [DefaultGame EXCEPT !.dora_indicators = DoraIndicators,
                         !.uradora_indicators = UraDoraIndicators],
     [DefaultGame EXCEPT !.is_rinshan = TRUE],
     [DefaultGame EXCEPT !.is_chankan = TRUE],
     [DefaultGame EXCEPT !.is_chiihou = TRUE, !.dora_indicators = DoraIndicators],
     [DefaultGame EXCEPT !.is_renhou = TRUE]}

\* every combination of the five player flags
FlagPlayers ==
    {[DefaultPlayer EXCEPT !.is_oya = f[1], !.is_riichi = f[2],
                           !.is_daburu_riichi = f[3], !.is_ippatsu = f[4],
                           !.is_menzen = f[5]] : f \in [1..5 -> BOOLEAN]}

\* every combination of the seven game flags
FlagGames ==
    {[DefaultGame EXCEPT !.is_tenhou = f[1], !.is_chiihou = f[2],
                         !.is_renhou = f[3], !.is_haitei = f[4],
                         !.is_houtei = f[5], !.is_rinshan = f[6],
                         !.is_chankan = f[7]] : f \in [1..7 -> BOOLEAN]}

\* the hands the flag combinations are applied to: one dragon triplet and
\* three sequences, and the broken hand
FlagHands ==
    {counts_of(ThreeRuns \o Three(SangenHai("Haku")) \o Two(Suhai(9, "Souzu")))}
        \cup BrokenHands

\* the declarations under the flag combinations
FlagDeclaredFor(counts) ==
    IF counts \in BrokenHands THEN {"none"} ELSE DeclaredChoices \cup {"missing"}

ContextInit ==
    /\ pc = "input"
    /\ organization = None
    /\ yaku_result = None
    /\ call = None
    /\ \/ \E counts \in ContextHands, agari_type \in AgariTypes,
             riichi \in BOOLEAN, menzen \in BOOLEAN, game \in ContextGames :
            \E declared \in DeclaredFor(counts), w \in {i \in 0..33 : counts[i] > 0} :
                input = ContextInput(counts, declared, w,
                            [DefaultPlayer EXCEPT !.is_riichi = riichi,
                                                  !.is_menzen = menzen],
                            game, agari_type)
       \/ \E counts \in FlagHands, agari_type \in AgariTypes,
             player \in FlagPlayers, game \in FlagGames :
            \E declared \in FlagDeclaredFor(counts) :
                input = ContextInput(counts, declared, LowestHeld(counts),
                                     player, game, agari_type)

SpecContext == ContextInit /\ [][Next]_vars

\* check_all_yaku was called: organize_hand had returned an organization
YakuCalled ==
    /\ pc \in {"checked", "error"}
    /\ organization.status = "Ok"

\* check_all_yaku returned a list without a yakuman for a standard hand
StandardNoYakuman ==
    /\ Checked
    /\ yaku_result.hand_structure.tag = "YonmentsuIchiatama"
    /\ \A k \in 1..Len(yaku_result.yaku_list) :
            yaku_result.yaku_list[k] \notin YakumanYaku

\* the hand is declared concealed, its four groups are sequences, its pair
\* is no dragon, seat wind or round wind, the wait is two-sided and the win
\* a self-draw
PinfuTsumoShape ==
    LET hand == yaku_result.hand_structure.hand
    IN  /\ input.player_context.is_menzen
        /\ \A k \in 1..4 : hand.mentsu[k].mentsu_type = "Shuntsu"
        /\ hand.atama[1] \notin {SangenHai(d) : d \in {"Haku", "Hatsu", "Chun"}}
        /\ hand.atama[1] # KazeHai(input.player_context.jikaze)
        /\ hand.atama[1] # KazeHai(input.game_context.bakaze)
        /\ hand.machi = "Ryanmen"
        /\ input.agari_type = "Tsumo"

\* C11 as stated: a standard hand without yakuman that is concealed, all
\* sequences, with a valueless pair, a two-sided wait and a self-draw gets
\* both Pinfu and MenzenTsumo.
C11_PinfuWithTsumo ==
    (StandardNoYakuman /\ PinfuTsumoShape) =>
        /\ Contains(yaku_result.yaku_list, "Pinfu")
        /\ Contains(yaku_result.yaku_list, "MenzenTsumo")

\* C11: a standard hand without yakuman that is concealed, all sequences,
\* with a valueless pair, a two-sided wait and a self-draw gets MenzenTsumo,
\* and gets Pinfu as well unless the rinshan or chankan flag is set, in
\* which case Pinfu is removed from the list.
C11_PinfuWithTsumoNoKanFlag ==
    (StandardNoYakuman /\ PinfuTsumoShape) =>
        /\ Contains(yaku_result.yaku_list, "MenzenTsumo")
        /\ Contains(yaku_result.yaku_list, "Pinfu")
            <=> ~(input.game_context.is_rinshan \/ input.game_context.is_chankan)

\* a self-drawn 234m 567m 345p 678s with a pair of Shaa (neither seat nor
\* round wind) on a two-sided wait has been given Pinfu and MenzenTsumo
C11_Witness ==
    /\ StandardNoYakuman /\ PinfuTsumoShape
    /\ yaku_result.hand_structure.hand.atama[1] = KazeHai("Shaa")
    /\ Contains(yaku_result.yaku_list, "Pinfu")
    /\ Contains(yaku_result.yaku_list, "MenzenTsumo")

\* the hand tiles are the seven honors twice each
SevenHonorPairs ==
    counts_of(input.hand_tiles) = [i \in 0..33 |-> IF i >= 27 THEN 2 ELSE 0]

\* C12 as stated: for the seven honors twice each check_all_yaku returns
\* the Chiitoitsu structure and a list with both Chiitoitsu and Tsuuiisou,
\* no other ordinary pattern and no Dora or UraDora.
C12_HonorPairsChiitoitsuAndTsuuiisou ==
    (YakuCalled /\ SevenHonorPairs) =>
        /\ Checked
        /\ yaku_result.hand_structure.tag = "Chiitoitsu"
        /\ Contains(yaku_result.yaku_list, "Chiitoitsu")
        /\ Contains(yaku_result.yaku_list, "Tsuuiisou")
        /\ \A k \in 1..Len(yaku_result.yaku_list) :
                yaku_result.yaku_list[k] \in YakumanYaku \cup {"Chiitoitsu"}

\* C12: for the seven honors twice each check_all_yaku returns the
\* Chiitoitsu structure and a list that holds Tsuuiisou and only yakuman:
\* neither Chiitoitsu, nor another ordinary pattern, nor Dora or UraDora.
C12_HonorPairsTsuuiisouOnly ==
    (YakuCalled /\ SevenHonorPairs) =>
        /\ Checked
        /\ yaku_result.hand_structure.tag = "Chiitoitsu"
        /\ Contains(yaku_result.yaku_list, "Tsuuiisou")
        /\ \A k \in 1..Len(yaku_result.yaku_list) :
                yaku_result.yaku_list[k] \in YakumanYaku

\* the seven honor pairs, with riichi declared and a dora (Nan) in the
\* hand, came back as a Chiitoitsu structure with the list <<Tsuuiisou>>
C12_Witness ==
    /\ Checked /\ SevenHonorPairs
    /\ input.player_context.is_riichi
    /\ count_dora(input.hand_tiles, input.game_context.dora_indicators) > 0
    /\ yaku_result.hand_structure.tag = "Chiitoitsu"
    /\ yaku_result.yaku_list = <<"Tsuuiisou">>

\* C15: when the list returned by check_all_yaku holds a yakuman, from a
\* game-state flag or from the hand, it holds only yakuman: no ordinary
\* pattern and no Dora or UraDora.
C15_YakumanShortCircuit ==
    Checked =>
        ((\E k \in 1..Len(yaku_result.yaku_list) :
                yaku_result.yaku_list[k] \in YakumanYaku)
            => \A k \in 1..Len(yaku_result.yaku_list) :
                yaku_result.yaku_list[k] \in YakumanYaku)

\* a hand with riichi declared, a self-draw and dora in it (so that riichi,
\* tsumo and dora would otherwise be listed) came back with Chiihou alone
C15_Witness ==
    /\ Checked
    /\ input.player_context.is_riichi /\ input.player_context.is_menzen
    /\ count_dora(input.hand_tiles, input.game_context.dora_indicators) > 0
    /\ yaku_result.yaku_list = <<"Chiihou">>

\* a riichi or double-riichi flag is set
RiichiDeclared ==
    input.player_context.is_riichi \/ input.player_context.is_daburu_riichi

\* C17: Dora is listed only if an ordinary pattern is listed or riichi or
\* double riichi was declared, UraDora only if riichi or double riichi was
\* declared; a hand without ordinary pattern and without riichi gets the
\* empty list.
C17_DoraGating ==
    Checked =>
        LET list == yaku_result.yaku_list
            ordinary == SelectSeq(list, LAMBDA y : y \notin BonusYaku \cup YakumanYaku)
        IN  /\ Contains(list, "Dora") => (ordinary # <<>> \/ RiichiDeclared)
            /\ Contains(list, "UraDora") => RiichiDeclared
            /\ (ordinary = <<>> /\ ~RiichiDeclared /\ ~\E k \in 1..Len(list) : list[k] \in YakumanYaku)
                    => list = <<>>

\* a hand holding dora, without riichi, came back with the empty list
C17_Witness ==
    /\ Checked
    /\ ~RiichiDeclared
    /\ count_dora(input.hand_tiles, input.game_context.dora_indicators) > 0
    /\ yaku_result.yaku_list = <<>>

\* C18 as stated: for a standard hand without yakuman the number of
\* YakuhaiSangenpai entries equals the number of Koutsu/Kantsu of a dragon.
C18_OneEntryPerDragonTriplet ==
    StandardNoYakuman =>
        Len(SelectSeq(yaku_result.yaku_list, LAMBDA y : y = "YakuhaiSangenpai"))
            = Cardinality({k \in 1..4 :
                /\ is_koutsu_or_kantsu(yaku_result.hand_structure.hand.mentsu[k])
                /\ yaku_result.hand_structure.hand.mentsu[k].tiles[1].tag = "Sangen"})

\* one of the situations in which validate_game_state is to refuse the input
FlagConflict ==
    LET p == input.player_context
        g == input.game_context
        a == input.agari_type
        declared_call == input.open_melds # <<>> \/ input.closed_kans # <<>>
    IN  \/ p.is_riichi /\ p.is_daburu_riichi
        \/ p.is_ippatsu /\ ~p.is_riichi /\ ~p.is_daburu_riichi
        \/ p.is_menzen /\ input.open_melds # <<>>
        \/ g.is_haitei /\ a = "Ron"
        \/ g.is_houtei /\ a = "Tsumo"
        \/ g.is_haitei /\ g.is_houtei
        \/ g.is_rinshan /\ a = "Ron"
        \/ g.is_chankan /\ a = "Tsumo"
        \/ g.is_tenhou /\ (~p.is_oya \/ a # "Tsumo" \/ declared_call)
        \/ g.is_chiihou /\ (p.is_oya \/ a # "Tsumo" \/ declared_call)
        \/ g.is_renhou /\ a # "Ron"

\* C19: whenever the flags conflict, organize_hand returns an error, and it
\* is the error of validate_game_state, also when a declared group is not
\* in the hand: the validation precedes the subtraction of declared groups.
C19_FlagValidation ==
    (pc # "input" /\ FlagConflict) =>
        /\ pc = "error"
        /\ organization.status = "Err"
        /\ organization = validate_game_state(input.player_context,
                input.game_context, input.agari_type, input)

\* an input with both riichi flags and a declared pon of a tile the hand
\* does not hold has been refused for the riichi flags
C19_Witness ==
    /\ pc = "error"
    /\ input.player_context.is_riichi /\ input.player_context.is_daburu_riichi
    /\ input.open_melds # <<>>
    /\ counts_of(input.hand_tiles)[tile_to_index(input.open_melds[1].representative_tile)] < 3
    /\ organization = Err("Invalid state: Cannot be both Riichi and Daburu Riichi.")

\* the organization is Irregular and passes neither check_kokushi nor
\* check_chiitoitsu
NeitherIrregularShape ==
    /\ organization.val.tag = "Irregular"
    /\ ~check_kokushi(organization.val.counts, organization.val.agari_hai).some
    /\ ~check_chiitoitsu(organization.val.counts, organization.val.agari_hai).some

\* C20: for an Irregular organization that is neither thirteen orphans nor
\* seven pairs check_all_yaku returns the invalid-hand error and no pattern
\* list, also when Tenhou, Chiihou or Renhou is flagged.
C20_InvalidIrregularHand ==
    (YakuCalled /\ NeitherIrregularShape) =>
        /\ pc = "error"
        /\ yaku_result = Err("Invalid irregular hand. Not Kokushi or Chiitoitsu.")

\* the broken hand under the Tenhou flag (dealer, self-draw, no call) has
\* been refused by check_all_yaku
C20_Witness ==
    /\ YakuCalled /\ NeitherIrregularShape
    /\ input.game_context.is_tenhou
    /\ counts_of(input.hand_tiles) \in BrokenHands
    /\ yaku_result.status = "Err"

\* ---------------------------------------------------------------------
\* Claims on the terminal patterns (Spec)
\* ---------------------------------------------------------------------

\* each of the five groups of the returned hand holds a terminal and no
\* tile of the hand is an honor
TerminalInEveryGroup ==
    LET groups == get_all_groups(yaku_result.hand_structure.hand)
    IN  /\ \A j \in 1..5 : \E k \in 1..Len(groups[j]) : is_terminal(groups[j][k])
        /\ \A j \in 1..5 : \A k \in 1..Len(groups[j]) : ~is_jihai(groups[j][k])

\* the hand is fully concealed: declared concealed, no open group
FullyConcealed ==
    /\ input.player_context.is_menzen
    /\ input.open_melds = <<>>

\* Junchan and Chanta are never listed together
ChantaExcludesJunchan ==
    ~(Contains(yaku_result.yaku_list, "Junchan")
        /\ Contains(yaku_result.yaku_list, "Chanta"))

\* C22 as stated: Junchan is listed only if every one of the five groups
\* holds a terminal, no tile is an honor and the hand is fully concealed;
\* Chanta and Junchan are never listed together.
C22_JunchanConcealedOnly ==
    Checked =>
        /\ Contains(yaku_result.yaku_list, "Junchan")
                => (TerminalInEveryGroup /\ FullyConcealed)
        /\ ChantaExcludesJunchan

\* C22: Junchan is listed only if every one of the five groups holds a
\* terminal and no tile is an honor, whether the hand is concealed or has
\* an open group; Chanta and Junchan are never listed together.
C22_JunchanTerminalGroups ==
    Checked =>
        /\ Contains(yaku_result.yaku_list, "Junchan") => TerminalInEveryGroup
        /\ ChantaExcludesJunchan

\* a hand with an open triplet and a sequence has been given Junchan
C22_Witness ==
    /\ Checked
    /\ Contains(yaku_result.yaku_list, "Junchan")
    /\ \E k \in 1..4 : yaku_result.hand_structure.hand.mentsu[k].is_minchou
    /\ \E k \in 1..4 : yaku_result.hand_structure.hand.mentsu[k].mentsu_type = "Shuntsu"

\* the returned hand is a standard hand whose four groups are sequences,
\* whose pair is no dragon, seat wind or round wind, and whose wait is
\* two-sided
PinfuShape ==
    /\ yaku_result.hand_structure.tag = "YonmentsuIchiatama"
    /\ LET hand == yaku_result.hand_structure.hand
       IN  /\ \A k \in 1..4 : hand.mentsu[k].mentsu_type = "Shuntsu"
           /\ hand.atama[1] \notin {SangenHai(d) : d \in {"Haku", "Hatsu", "Chun"}}
           /\ hand.atama[1] # KazeHai(input.player_context.jikaze)
           /\ hand.atama[1] # KazeHai(input.game_context.bakaze)
           /\ hand.machi = "Ryanmen"

\* C23: Pinfu is in the list returned by check_all_yaku only if the hand
\* is concealed, its four groups are sequences, its pair is not a dragon,
\* the seat wind or the round wind, the wait is two-sided, and neither
\* RinshanKaihou nor Chankan is in the list.
C23_PinfuOnlyIf ==
    (Checked /\ Contains(yaku_result.yaku_list, "Pinfu")) =>
        /\ FullyConcealed
        /\ PinfuShape
        /\ ~Contains(yaku_result.yaku_list, "RinshanKaihou")
        /\ ~Contains(yaku_result.yaku_list, "Chankan")

\* a hand won by Ron has been given Pinfu, and so has a hand whose pair is
\* a wind: neither the win type nor an honor pair as such rules Pinfu out
C23_Witness ==
    /\ Checked /\ Contains(yaku_result.yaku_list, "Pinfu")
    /\ input.agari_type = "Ron"
    /\ yaku_result.hand_structure.hand.atama[1].tag = "Kaze"

\* a concealed all-sequence hand with a two-sided wait and a valueless pair
\* won under the chankan flag has been returned without Pinfu
C23_ChankanReached ==
    /\ Checked /\ FullyConcealed /\ PinfuShape
    /\ Contains(yaku_result.yaku_list, "Chankan")
    /\ ~Contains(yaku_result.yaku_list, "Pinfu")

\* ---------------------------------------------------------------------
\* SpecChuuren: organize_hand and check_all_yaku on the hands around the
\* nine gates
\* ---------------------------------------------------------------------

\* the thirteen tiles 1112345678999 of Manzu
GatesBase == [i \in 0..33 |-> IF i \in {0, 8} THEN 3 ELSE IF i \in 1..7 THEN 1 ELSE 0]

\* one tile of kind i
OneTile(i) == [k \in 0..33 |-> IF k = i THEN 1 ELSE 0]

\* the kinds added to the thirteen tiles: the nine Manzu, 1p and Ton
GatesAdded == (0..8) \cup {index_from_hai(Suhai(1, "Pinzu")), index_from_hai(KazeHai("Ton"))}

\* the thirteen tiles with two tiles added and one Manzu taken away: the
\* nine-gates hands (the tile taken is one of the two added) and the hands
\* one tile off
GatesHands ==
    {h \in {[i \in 0..33 |-> GatesBase[i] + OneTile(a)[i] + OneTile(b)[i] - OneTile(c)[i]] :
                a \in GatesAdded, b \in GatesAdded, c \in 0..8} :
        \A i \in 0..33 : h[i] <= MaxCopies}

\* the declarations tried on a hand: none, an open pon or a closed kan of
\* the lowest triplet, an open chi of the lowest run
GatesDeclared == {"none", "pon", "kan", "chi"}

\* lowest kind that starts a run held in the hand
LowestRun(counts) ==
    CHOOSE i \in 0..6 : /\ counts[i] > 0 /\ counts[i + 1] > 0 /\ counts[i + 2] > 0
                        /\ \A j \in 0..(i - 1) :
                              ~(counts[j] > 0 /\ counts[j + 1] > 0 /\ counts[j + 2] > 0)

GatesInput(counts, declared, w) ==
    IF declared = "chi" THEN
        UserInput(tiles_from(counts, 0), index_to_tile(w),
                  << [mentsu_type |-> "Shuntsu",
                      representative_tile |-> index_to_tile(LowestRun(counts))] >>,
                  <<>>, [DefaultPlayer EXCEPT !.is_menzen = FALSE], DefaultGame, "Tsumo")
    ELSE StandardInput(counts, declared, w,
                       [DefaultPlayer EXCEPT !.is_menzen = (declared # "pon")], "Tsumo")

ChuurenInit ==
    /\ pc = "input"
    /\ organization = None
    /\ yaku_result = None
    /\ call = None
    /\ \E counts \in GatesHands, declared \in GatesDeclared :
        \E w \in {i \in 0..33 : counts[i] > 0} :
            /\ declared \in {"pon", "kan"} => \E i \in 0..33 : counts[i] >= 3
            /\ declared = "chi" =>
                    \E i \in 0..6 : counts[i] > 0 /\ counts[i + 1] > 0 /\ counts[i + 2] > 0
            /\ input = GatesInput(counts, declared, w)

SpecChuuren == ChuurenInit /\ [][Next]_vars

\* the rank held once more than in 1112345678999, when the held tiles are
\* fourteen tiles of one suit with that profile; 0 otherwise
ExtraRank(tiles) ==
    LET held(num) == Cardinality({k \in 1..Len(tiles) : tiles[k].n = num})
        base(num) == IF num \in {1, 9} THEN 3 ELSE 1
        extras == {num \in 1..9 : held(num) = base(num) + 1}
    IN  IF /\ Len(tiles) = HandSize
           /\ \A k \in 1..Len(tiles) : tiles[k].tag = "Suhai" /\ tiles[k].v = tiles[1].v
           /\ \A num \in 1..9 : held(num) \in {base(num), base(num) + 1}
           /\ Cardinality(extras) = 1
        THEN CHOOSE num \in extras : TRUE
        ELSE 0

\* the held tiles are of one suit, 1112345678999 and one extra tile, and no
\* group is open
NineGatesProfile ==
    /\ ExtraRank(input.hand_tiles) # 0
    /\ input.open_melds = <<>>

\* C24: for a standard hand check_chuuren reports the nine gates exactly
\* when all tiles are of one suit, no group is open and the rank counts are
\* three of rank 1, one each of ranks 2 to 8 and three of rank 9 plus
\* exactly one extra tile; it reports the true variant exactly when the
\* rank of the winning tile is the rank of the extra tile.
C24_NineGates ==
    (YakuCalled /\ organization.val.tag = "YonmentsuIchiatama") =>
        /\ check_chuuren(organization.val.hand).some <=> NineGatesProfile
        /\ (yaku_result.status = "Ok"
                /\ yaku_result.hand_structure.tag = "ChuurenPoutou") <=> NineGatesProfile
        /\ NineGatesProfile =>
                (yaku_result.hand_structure.is_junsei
                    <=> input.winning_tile.n = ExtraRank(input.hand_tiles))

\* 1112345678999 with a second 5 won on the 2 has been reported as the nine
\* gates, not the true variant
C24_Witness ==
    /\ YakuCalled
    /\ counts_of(input.hand_tiles) = [GatesBase EXCEPT ![4] = 2]
    /\ input.winning_tile = Suhai(2, "Manzu")
    /\ input.open_melds = <<>>
    /\ yaku_result.hand_structure.tag = "ChuurenPoutou"
    /\ ~yaku_result.hand_structure.is_junsei

\* the true variant has been reported
C24_JunseiReached ==
    /\ Checked
    /\ yaku_result.hand_structure.tag = "ChuurenPoutou"
    /\ yaku_result.hand_structure.is_junsei

\* a hand with the profile and an open group has been returned as an
\* ordinary standard hand
C24_OpenReached ==
    /\ Checked
    /\ ExtraRank(input.hand_tiles) # 0
    /\ input.open_melds # <<>>
    /\ yaku_result.hand_structure.tag = "YonmentsuIchiatama"

\* ---------------------------------------------------------------------
\* SpecSearch: find_mentsu_recursive on count vectors, and organize_hand
\* on the window hands with and without a declared pon
\* ---------------------------------------------------------------------

\* kinds of the searched count vectors: the last kinds of Manzu and 1p
SearchKinds == 5
SearchWindow == (10 - SearchKinds)..9

\* the group lists handed to the search: the empty list of organize_hand,
\* and a list that already holds a group
SearchLists == {<<>>, <<Mentsu("Koutsu", TRUE, SangenHai("Haku"), SangenHai("Haku"),
                               SangenHai("Haku"), SangenHai("Haku"))>>}

SearchInit ==
    /\ organization = None
    /\ yaku_result = None
    /\ \/ /\ pc = "search"
          /\ input = None
          /\ \E counts \in [SearchWindow -> 0..MaxCopies], mentsu \in SearchLists :
                call = [counts |-> [i \in 0..33 |-> IF i \in SearchWindow THEN counts[i] ELSE 0],
                        mentsu |-> mentsu,
                        result |-> None]
       \/ /\ pc = "input"
          /\ call = None
          /\ \E counts \in WindowHands, declared \in {"none", "pon"} :
                /\ declared = "pon" => \E i \in 0..33 : counts[i] >= 3
                /\ input = StandardInput(counts, declared, LowestHeld(counts),
                                [DefaultPlayer EXCEPT !.is_menzen = (declared = "none")],
                                "Ron")

\* organize_hand: find_mentsu_recursive(&mut temp_counts, &mut closed_mentsu)
Call_find_mentsu_recursive ==
    /\ pc = "search"
    /\ call' = [call EXCEPT !.result = find_mentsu_recursive(call.counts, call.mentsu)]
    /\ pc' = "searched"
    /\ UNCHANGED <<input, organization, yaku_result>>

SearchNext ==
    \/ Call_find_mentsu_recursive
    \/ OrganizeHand

SpecSearch == SearchInit /\ [][SearchNext]_vars

\* the residual concealed counts and the declared groups of an input, as
\* organize_hand has them before the first candidate pair
Residual(inp) ==
    LET kans == subtract_closed_kans(inp.closed_kans, counts_of(inp.hand_tiles), <<>>)
    IN  subtract_open_melds(inp.open_melds, kans.counts, kans.mentsu)

\* the search for candidate pair i, started from the residual counts and
\* an empty list
PairAttempt(residual, i) ==
    find_mentsu_recursive([residual.counts EXCEPT ![i] = @ - 2], <<>>)

\* candidate pair i gives the needed number of groups
AttemptSucceeds(residual, i) ==
    /\ residual.counts[i] >= 2
    /\ PairAttempt(residual, i).found
    /\ Len(PairAttempt(residual, i).mentsu) = 4 - Len(residual.mentsu)

\* the result of organize_hand is that of the lowest candidate pair whose
\* search, started from the residual counts, succeeds: the declared groups
\* followed by the groups found; Irregular when every candidate fails
FirstSuccessfulPair(residual, org) ==
    IF org.tag = "YonmentsuIchiatama" THEN
        /\ AttemptSucceeds(residual, tile_to_index(org.hand.atama[1]))
        /\ org.hand.mentsu
            = residual.mentsu \o PairAttempt(residual, tile_to_index(org.hand.atama[1])).mentsu
        /\ \A i \in 0..(tile_to_index(org.hand.atama[1]) - 1) : ~AttemptSucceeds(residual, i)
    ELSE \A i \in 0..33 : ~AttemptSucceeds(residual, i)

\* C25: when find_mentsu_recursive returns false, the counts and the group
\* list are as they were on entry; in organize_hand every candidate pair is
\* tried from the same residual counts and declared groups, so the result
\* is that of the first candidate whose search succeeds from that state.
C25_BacktrackingLeavesNoTrace ==
    /\ (pc = "searched" /\ ~call.result.found) =>
            /\ call.result.counts = call.counts
            /\ call.result.mentsu = call.mentsu
    /\ (pc = "organized" /\ Len(Residual(input).mentsu) < 4) =>
            FirstSuccessfulPair(Residual(input), organization.val)

\* a search given one group and counts that start with a triplet and hold
\* the run 6m 7m 8m has returned false with the counts and the list as given
C25_Witness ==
    /\ pc = "searched" /\ ~call.result.found
    /\ call.mentsu # <<>>
    /\ call.counts[first_held(call.counts, 0)] >= 3
    /\ call.counts[7] > 0 /\ call.counts[6] > 0 /\ call.counts[5] > 0
    /\ call.result.counts = call.counts
    /\ call.result.mentsu = call.mentsu

\* a hand with a declared pon has been returned with a pair above a
\* candidate pair that failed
C25_LaterPairReached ==
    /\ pc = "organized" /\ organization.val.tag = "YonmentsuIchiatama"
    /\ input.open_melds # <<>>
    /\ \E i \in 0..(tile_to_index(organization.val.hand.atama[1]) - 1) :
            Residual(input).counts[i] >= 2

\* ---------------------------------------------------------------------
\* SpecDeclared: organize_hand and check_all_yaku on hands with declared
\* groups (open chi, pon and kan, closed kan), up to all four
\* ---------------------------------------------------------------------

\* a group of a hand: a run from kind i or three tiles of kind i
Group(ty, i) == [ty |-> ty, i |-> i]

\* the choices for each of the four groups, and for the pair
GroupChoices ==
    << {Group("Shuntsu", index_from_hai(Suhai(1, "Manzu"))),
        Group("Koutsu", index_from_hai(Suhai(1, "Manzu")))},
       {Group("Shuntsu", index_from_hai(Suhai(2, "Manzu")))},
       {Group("Shuntsu", index_from_hai(Suhai(5, "Pinzu"))),
        Group("Koutsu", index_from_hai(Suhai(9, "Pinzu")))},
       {Group("Shuntsu", index_from_hai(Suhai(7, "Souzu"))),
        Group("Koutsu", index_from_hai(SangenHai("Haku")))} >>

PairChoices == {index_from_hai(Suhai(3, "Manzu")), index_from_hai(Suhai(9, "Souzu"))}

\* how a group is declared: not at all, open (chi or pon), as an open kan
\* or as a closed kan (a kan holds a fourth tile)
StylesOf(g) ==
    IF g.ty = "Shuntsu" THEN {"concealed", "open"}
    ELSE {"concealed", "open", "openkan", "closedkan"}

\* the tiles of a group declared in a style
GroupCounts(g, style) ==
    [k \in 0..33 |->
        IF g.ty = "Shuntsu" THEN (IF k \in g.i..(g.i + 2) THEN 1 ELSE 0)
        ELSE IF k # g.i THEN 0
        ELSE IF style \in {"openkan", "closedkan"} THEN 4 ELSE 3]

\* OpenMeldInput of a group declared open
OpenMeldOf(g, style) ==
    [mentsu_type |-> IF style = "openkan" THEN "Kantsu" ELSE g.ty,
     representative_tile |-> index_to_tile(g.i)]

\* the open melds of the groups from the k-th on, in group order
RECURSIVE open_melds_from(_, _, _)
open_melds_from(groups, styles, k) ==
    IF k > Len(groups) THEN <<>>
    ELSE (IF styles[k] \in {"open", "openkan"}
          THEN <<OpenMeldOf(groups[k], styles[k])>> ELSE <<>>)
         \o open_melds_from(groups, styles, k + 1)

\* the closed kans of the groups from the k-th on, in group order
RECURSIVE closed_kans_from(_, _, _)
closed_kans_from(groups, styles, k) ==
    IF k > Len(groups) THEN <<>>
    ELSE (IF styles[k] = "closedkan" THEN <<index_to_tile(groups[k].i)>> ELSE <<>>)
         \o closed_kans_from(groups, styles, k + 1)

\* the held tiles: the four groups and the pair
DeclaredCounts(groups, styles, pair) ==
    [k \in 0..33 |->
        GroupCounts(groups[1], styles[1])[k] + GroupCounts(groups[2], styles[2])[k]
        + GroupCounts(groups[3], styles[3])[k] + GroupCounts(groups[4], styles[4])[k]
        + (IF k = pair THEN 2 ELSE 0)]

\* the input of a hand given by its groups, their declarations, its pair
\* and the winning kind
DeclaredInput(groups, styles, pair, w) ==
    UserInput(tiles_from(DeclaredCounts(groups, styles, pair), 0), index_to_tile(w),
              open_melds_from(groups, styles, 1), closed_kans_from(groups, styles, 1),
              [DefaultPlayer EXCEPT !.is_menzen = (open_melds_from(groups, styles, 1) = <<>>)],
              DefaultGame, "Ron")

\* seven pairs that hold the run 1m 2m 3m twice, and seven pair-units with
\* four 1m
PairsWithRun ==
    [k \in 0..33 |-> IF k \in (0..2) \cup (27..29) \cup {index_from_hai(Suhai(9, "Souzu"))}
                     THEN 2 ELSE 0]
PairsWithQuad ==
    [k \in 0..33 |-> IF k = 0 THEN 4
                     ELSE IF k \in (27..30) \cup {index_from_hai(Suhai(9, "Souzu"))} THEN 2
                     ELSE 0]

DeclaredInit ==
    /\ pc = "input"
    /\ organization = None
    /\ yaku_result = None
    /\ call = None
    /\ \/ \E g1 \in GroupChoices[1], g2 \in GroupChoices[2], g3 \in GroupChoices[3],
             g4 \in GroupChoices[4], pair \in PairChoices :
            \E s1 \in StylesOf(g1), s2 \in StylesOf(g2), s3 \in StylesOf(g3),
               s4 \in StylesOf(g4) :
                \E w \in {i \in 0..33 :
                            DeclaredCounts(<<g1, g2, g3, g4>>, <<s1, s2, s3, s4>>, pair)[i] > 0} :
                    input = DeclaredInput(<<g1, g2, g3, g4>>, <<s1, s2, s3, s4>>, pair, w)
       \/ \E declared \in {"none", "chi"} :
            \E w \in {i \in 0..33 : PairsWithRun[i] > 0} :
                input = GatesInput(PairsWithRun, declared, w)
       \/ \E declared \in {"none", "pon"} :
            \E w \in {i \in 0..33 : PairsWithQuad[i] > 0} :
                input = StandardInput(PairsWithQuad, declared, w,
                            [DefaultPlayer EXCEPT !.is_menzen = (declared = "none")], "Ron")

SpecDeclared == DeclaredInit /\ [][Next]_vars

\* number of declared groups of the input
DeclaredGroups == Len(input.closed_kans) + Len(input.open_melds)

\* organize_hand returned a standard hand
Standard == pc # "input" /\ organization.status = "Ok"
                /\ organization.val.tag = "YonmentsuIchiatama"

\* C21 as stated: when all four groups are declared and organize_hand
\* returns a standard hand, its wait is Tanki, its pair is the single
\* residual kind with count 2, and its winning tile is the pair tile.
C21_FourDeclaredTanki ==
    (Standard /\ DeclaredGroups = 4) =>
        LET hand == organization.val.hand
            residual == Residual(input).counts
        IN  /\ hand.machi = "Tanki"
            /\ hand.atama[1] = hand.atama[2]
            /\ {i \in 0..33 : residual[i] = 2} = {tile_to_index(hand.atama[1])}
            /\ hand.agari_hai = hand.atama[1]

\* with four declared groups the wait is Tanki and the pair is the single
\* residual kind with count 2, whatever the winning tile
C21_FourDeclaredPair ==
    (Standard /\ DeclaredGroups = 4) =>
        LET hand == organization.val.hand
            residual == Residual(input).counts
        IN  /\ hand.machi = "Tanki"
            /\ hand.atama[1] = hand.atama[2]
            /\ {i \in 0..33 : residual[i] = 2} = {tile_to_index(hand.atama[1])}
            /\ hand.agari_hai = input.winning_tile

\* a standard hand with four declared groups has been returned with the
\* wait Tanki on a winning tile that is a tile of a declared open group and
\* not the pair tile
C21_WinningTileInDeclaredGroup ==
    /\ Standard /\ DeclaredGroups = 4
    /\ organization.val.hand.machi = "Tanki"
    /\ organization.val.hand.agari_hai # organization.val.hand.atama[1]
    /\ \E k \in 1..4 :
        /\ organization.val.hand.mentsu[k].is_minchou
        /\ mentsu_contains_tile(organization.val.hand.mentsu[k], organization.val.hand.agari_hai)

\* the input passes validate_input
PassesValidation ==
    validate_input(input, counts_of(input.hand_tiles)).status = "Ok"

\* the tiles of the groups and the pair of a standard hand
HandTileSet(hand) ==
    {hand.atama[1], hand.atama[2]}
        \cup UNION {{mentsu_tiles(hand.mentsu[k])[j] :
                        j \in 1..Len(mentsu_tiles(hand.mentsu[k]))} : k \in 1..Len(hand.mentsu)}

\* C26: for an input that passes validation organize_hand returns a
\* standard hand, an irregular hand or an error and never aborts: a
\* standard hand has exactly four groups and its winning tile is the pair
\* tile or a tile of one of the groups, so the wait classifier cannot fail.
C26_ClassifierNeverFails ==
    (pc # "input" /\ PassesValidation) =>
        /\ organization.status \in {"Ok", "Err"}
        /\ organization.status = "Ok" =>
                organization.val.tag \in {"YonmentsuIchiatama", "Irregular"}
        /\ Standard =>
                /\ Len(organization.val.hand.mentsu) = 4
                /\ organization.val.hand.agari_hai \in HandTileSet(organization.val.hand)
                /\ organization.val.hand.machi
                        \in {"Tanki", "Shanpon", "Kanchan", "Penchan", "Ryanmen"}

\* a hand with a declared chi and a closed kan has been classified on a
\* winning tile that is the last tile of a concealed sequence
C26_Witness ==
    /\ Standard /\ PassesValidation
    /\ input.closed_kans # <<>>
    /\ \E k \in 1..Len(input.open_melds) : input.open_melds[k].mentsu_type = "Shuntsu"
    /\ \E k \in 1..4 :
        /\ ~organization.val.hand.mentsu[k].is_minchou
        /\ organization.val.hand.mentsu[k].mentsu_type = "Shuntsu"
        /\ organization.val.hand.mentsu[k].tiles[3] = organization.val.hand.agari_hai
    /\ organization.val.hand.agari_hai # organization.val.hand.atama[1]
    /\ \A k \in 1..4 : organization.val.hand.mentsu[k].tiles[1] # organization.val.hand.agari_hai

\* the multiset of the tiles of a standard hand: three per Shuntsu and
\* Koutsu, four per Kantsu, and the two pair tiles
HandCounts(hand) == counts_of(get_all_tiles(hand))

\* a sequence is three consecutive ranks of one suit, from rank 7 at most
WellFormedShuntsu(m) ==
    /\ m.tiles[1].tag = "Suhai" /\ m.tiles[1].n <= 7
    /\ m.tiles[2] = Suhai(m.tiles[1].n + 1, m.tiles[1].v)
    /\ m.tiles[3] = Suhai(m.tiles[1].n + 2, m.tiles[1].v)

\* the declared groups of the input in the order organize_hand takes them:
\* type, open flag and first tile
DeclaredList ==
    [k \in 1..Len(input.closed_kans) |->
        [mentsu_type |-> "Kantsu", is_minchou |-> FALSE, tile |-> input.closed_kans[k]]]
    \o [k \in 1..Len(input.open_melds) |->
        [mentsu_type |-> input.open_melds[k].mentsu_type, is_minchou |-> TRUE,
         tile |-> input.open_melds[k].representative_tile]]

\* C27: the tiles of the four groups of a returned standard hand (three
\* per Sequence and Triplet, four per Quad) and its two pair tiles are the
\* held tiles of the input; every Sequence is three consecutive ranks of
\* one suit with first rank at most 7; every declared group is among the
\* four groups with its declared type and open/concealed flag.
C27_TileConservation ==
    Standard =>
        LET hand == organization.val.hand
        IN  /\ HandCounts(hand) = counts_of(input.hand_tiles)
            /\ hand.atama[1] = hand.atama[2]
            /\ \A k \in 1..4 :
                    hand.mentsu[k].mentsu_type = "Shuntsu" => WellFormedShuntsu(hand.mentsu[k])
            /\ \A k \in 1..Len(DeclaredList) :
                    /\ hand.mentsu[k].mentsu_type = DeclaredList[k].mentsu_type
                    /\ hand.mentsu[k].is_minchou = DeclaredList[k].is_minchou
                    /\ hand.mentsu[k].tiles[1] = DeclaredList[k].tile
            /\ \A k \in (Len(DeclaredList) + 1)..4 : ~hand.mentsu[k].is_minchou

\* a sixteen-tile hand with a closed kan, an open kan and an open chi has
\* been returned with a concealed sequence found by the search
C27_Witness ==
    /\ Standard
    /\ Len(input.hand_tiles) = 16
    /\ input.closed_kans # <<>>
    /\ \E k \in 1..Len(input.open_melds) : input.open_melds[k].mentsu_type = "Kantsu"
    /\ \E k \in 1..Len(input.open_melds) : input.open_melds[k].mentsu_type = "Shuntsu"
    /\ organization.val.hand.mentsu[4].mentsu_type = "Shuntsu"
    /\ ~organization.val.hand.mentsu[4].is_minchou

\* C28 as stated: a hand with at least one declared group is never
\* classified as seven pairs or thirteen orphans: check_all_yaku returns a
\* standard or nine-gates structure, or an error.
C28_DeclaredNeverIrregularShape ==
    (pc \in {"checked", "error"} /\ DeclaredGroups >= 1) =>
        \/ organization.status = "Err"
        \/ yaku_result.status = "Err"
        \/ yaku_result.hand_structure.tag \in {"YonmentsuIchiatama", "ChuurenPoutou"}

\* the pairs 1m 2m 3m Ton Nan Shaa 9s with the chi 1m 2m 3m declared have
\* been classified as seven pairs
C28_ChiitoitsuWithChi ==
    /\ Checked
    /\ \E k \in 1..Len(input.open_melds) : input.open_melds[k].mentsu_type = "Shuntsu"
    /\ yaku_result.hand_structure.tag = "Chiitoitsu"
    /\ Contains(yaku_result.yaku_list, "Chiitoitsu")

\* position of the first group of the hand that contains the winning
\* tile, the one determine_wait_type classifies; 0 if there is none
WinningMeldIndex(hand) ==
    LET hits == {k \in 1..4 : mentsu_contains_tile(hand.mentsu[k], hand.agari_hai)}
    IN  IF hits = {} THEN 0 ELSE CHOOSE k \in hits : \A j \in hits : k <= j

\* C29 as stated: in a standard hand with fewer than four declared groups
\* whose winning tile is not the pair tile, the group the wait classifier
\* uses is a concealed group found by the search, never a declared group.
C29_WaitFromConcealedGroup ==
    (Standard /\ DeclaredGroups < 4
        /\ organization.val.hand.agari_hai # organization.val.hand.atama[1]) =>
        /\ WinningMeldIndex(organization.val.hand) > DeclaredGroups
        /\ ~organization.val.hand.mentsu[WinningMeldIndex(organization.val.hand)].is_minchou

\* 1m 2m 3m declared as chi, 2m 3m 4m concealed, won on 2m: the wait has
\* been taken from the declared chi (Kanchan), though the concealed
\* sequence holds the winning tile as well (Ryanmen)
C29_WaitFromDeclaredChi ==
    /\ Standard /\ DeclaredGroups = 1
    /\ input.winning_tile = Suhai(2, "Manzu")
    /\ organization.val.hand.mentsu[1].is_minchou
    /\ organization.val.hand.mentsu[1].mentsu_type = "Shuntsu"
    /\ organization.val.hand.mentsu[1].tiles[1] = Suhai(1, "Manzu")
    /\ organization.val.hand.mentsu[2] =
            Mentsu("Shuntsu", FALSE, Suhai(2, "Manzu"), Suhai(3, "Manzu"),
                   Suhai(4, "Manzu"), Suhai(4, "Manzu"))
    /\ organization.val.hand.machi = "Kanchan"

-----------------------------------------------------------------------------
(* raw_hand_organizer/wait_analyzer.rs: the wait classifier that returns
   every possible wait *)

\* the loop over the melds that contain the winning tile, from the k-th
\* meld on: one wait per meld, none for a sequence in which the tile is
\* neither t1, t2 nor t3 (continue)
RECURSIVE possible_waits_from(_, _, _)
possible_waits_from(mentsu, agari_hai, k) ==
    IF k > Len(mentsu) THEN <<>>
    ELSE
        LET winning_meld == mentsu[k]
            t1 == winning_meld.tiles[1]
            t2 == winning_meld.tiles[2]
            t3 == winning_meld.tiles[3]
        IN  (IF ~mentsu_contains_tile(winning_meld, agari_hai) THEN <<>>
             ELSE IF winning_meld.mentsu_type \in {"Koutsu", "Kantsu"} THEN <<"Shanpon">>
             ELSE IF agari_hai = t2 THEN <<"Kanchan">>
             ELSE IF agari_hai = t1 THEN
                (IF tile_to_index(t3) % 9 = 8 THEN <<"Penchan">> ELSE <<"Ryanmen">>)
             ELSE IF agari_hai = t3 THEN
                (IF tile_to_index(t1) % 9 = 0 THEN <<"Penchan">> ELSE <<"Ryanmen">>)
             ELSE <<>>)
            \o possible_waits_from(mentsu, agari_hai, k + 1)

\* Tanki pushed after the waits of the melds
wait_analyzer_determine_wait_type_TankiLast(mentsu, atama, agari_hai) ==
    possible_waits_from(mentsu, agari_hai, 1)
    \o (IF agari_hai = atama[1] THEN <<"Tanki">> ELSE <<>>)

\* wait_analyzer::determine_wait_type -> Vec<Machi>
wait_analyzer_determine_wait_type(mentsu, atama, agari_hai) ==
    (IF agari_hai = atama[1] THEN <<"Tanki">> ELSE <<>>)
    \o possible_waits_from(mentsu, agari_hai, 1)

\* ---------------------------------------------------------------------
\* SpecWait: both wait classifiers on decompositions of four groups and a
\* pair
\* ---------------------------------------------------------------------

\* the groups of the decompositions: sequences that overlap and reach the
\* ends of the suit, a triplet, an open kan, an honor triplet
WaitMelds ==
    {Mentsu("Shuntsu", FALSE, Suhai(1, "Manzu"), Suhai(2, "Manzu"), Suhai(3, "Manzu"),
            Suhai(3, "Manzu")),
     Mentsu("Shuntsu", TRUE, Suhai(2, "Manzu"), Suhai(3, "Manzu"), Suhai(4, "Manzu"),
            Suhai(4, "Manzu")),
     Mentsu("Shuntsu", FALSE, Suhai(7, "Manzu"), Suhai(8, "Manzu"), Suhai(9, "Manzu"),
            Suhai(9, "Manzu")),
     Mentsu("Koutsu", FALSE, Suhai(3, "Manzu"), Suhai(3, "Manzu"), Suhai(3, "Manzu"),
            Suhai(3, "Manzu")),
     Mentsu("Kantsu", TRUE, Suhai(9, "Manzu"), Suhai(9, "Manzu"), Suhai(9, "Manzu"),
            Suhai(9, "Manzu")),
     Mentsu("Koutsu", TRUE, SangenHai("Haku"), SangenHai("Haku"), SangenHai("Haku"),
            SangenHai("Haku"))}

WaitPairs == {Suhai(3, "Manzu"), Suhai(7, "Manzu"), KazeHai("Ton")}

\* the tiles of a decomposition
DecompositionTiles(mentsu, atama) ==
    <<atama[1], atama[2]>> \o mentsu_tiles(mentsu[1]) \o mentsu_tiles(mentsu[2])
        \o mentsu_tiles(mentsu[3]) \o mentsu_tiles(mentsu[4])

\* the kinds of a list of tiles, and no kind more than four times
HeldKinds(tiles) == {tile_to_index(tiles[k]) : k \in 1..Len(tiles)}
AtMostFour(tiles) ==
    \A k \in 1..Len(tiles) :
        Cardinality({j \in 1..Len(tiles) : tiles[j] = tiles[k]}) <= MaxCopies

WaitInit ==
    /\ pc = "input"
    /\ input = None
    /\ organization = None
    /\ yaku_result = None
    /\ \E m1 \in WaitMelds, m2 \in WaitMelds, m3 \in WaitMelds, m4 \in WaitMelds,
          p \in WaitPairs :
        \E w \in HeldKinds(DecompositionTiles(<<m1, m2, m3, m4>>, <<p, p>>)) :
            /\ AtMostFour(DecompositionTiles(<<m1, m2, m3, m4>>, <<p, p>>))
            /\ call = [mentsu |-> <<m1, m2, m3, m4>>, atama |-> <<p, p>>,
                       agari_hai |-> index_to_tile(w),
                       machi |-> NoneOpt, possible_waits |-> NoneOpt]

\* let machi = wait_analyzer::determine_wait_type(&mentsu_array, atama, agari_hai)
Call_determine_wait_type ==
    /\ ~call.machi.some
    /\ call' = [call EXCEPT !.machi = Some(determine_wait_type(call.mentsu, call.atama,
                                                                call.agari_hai))]
    /\ UNCHANGED <<pc, input, organization, yaku_result>>

\* wait_analyzer.rs: determine_wait_type(&mentsu, atama, agari_hai) -> Vec<Machi>
Call_wait_analyzer_determine_wait_type ==
    /\ ~call.possible_waits.some
    /\ call' = [call EXCEPT !.possible_waits =
                    Some(wait_analyzer_determine_wait_type(call.mentsu, call.atama,
                                                           call.agari_hai))]
    /\ UNCHANGED <<pc, input, organization, yaku_result>>

WaitNext ==
    \/ Call_determine_wait_type
    \/ Call_wait_analyzer_determine_wait_type

SpecWait == WaitInit /\ [][WaitNext]_vars

\* both classifiers have returned
BothClassified == call.machi.some /\ call.possible_waits.some

\* C30: for a decomposition of four groups and a pair and a winning tile
\* contained in the pair or a group, the classifier that returns every
\* wait gives a nonempty list whose first element is the result of the
\* single-result classifier, and every element is one of Tanki, Shanpon,
\* Kanchan, Penchan, Ryanmen.
C30_ClassifiersAgree ==
    BothClassified =>
        /\ call.possible_waits.val # <<>>
        /\ call.possible_waits.val[1] = call.machi.val
        /\ \A k \in 1..Len(call.possible_waits.val) :
                call.possible_waits.val[k]
                    \in {"Tanki", "Shanpon", "Kanchan", "Penchan", "Ryanmen"}

\* a win on 3m, the pair tile, that is also a tile of the sequences 1m 2m 3m
\* and 2m 3m 4m: the list starts with Tanki, the single result, and goes on
\* with Penchan and Kanchan
C30_Witness ==
    /\ BothClassified
    /\ call.agari_hai = Suhai(3, "Manzu")
    /\ call.atama[1] = Suhai(3, "Manzu")
    /\ call.machi.val = "Tanki"
    /\ Len(call.possible_waits.val) >= 3
    /\ call.possible_waits.val[1] = "Tanki"
    /\ \E k \in 2..Len(call.possible_waits.val) : call.possible_waits.val[k] = "Kanchan"
    /\ \E k \in 2..Len(call.possible_waits.val) : call.possible_waits.val[k] = "Penchan"

=============================================================================
